---- MODULE Spec2Model ----
(***************************************************************************)
(* State-machine model of the fastermail triage / digest / cleanup core:   *)
(* the remote mailbox (folder membership per message), the Store (digest   *)
(* rows and the processed-email ledger), LabelManager, TriageEngine,       *)
(* DigestGenerator/DigestScheduler and runCleanup.  Every await in the     *)
(* TypeScript source is a suspension point, so each handler is a sequence  *)
(* of atomic steps that interleave with the steps of the other handlers.   *)
(***************************************************************************)
EXTENDS Integers, Sequences, FiniteSets, TLC

\* ------------------------------------------------------------------ bounds
NumEmails == 2
LifecycleEmails == 1
MaxDigests == 3
MaxFailures == 1
MaxUserActions == 1
MaxTimers == 3
MaxInbox == 502

Emails == 1..NumEmails

\* ------------------------------------------------------- program constants
Classification == {"important", "needs-reply", "fyi", "low-priority"}

\* Iteration order of the labelMailboxIds Map (insertion order of initialize).
ClassificationOrder == <<"important", "needs-reply", "fyi", "low-priority">>

CLASSIFICATION_LABELS ==
    [c \in Classification |->
        CASE c = "important"    -> "Important"
          [] c = "needs-reply"  -> "Needs Reply"
          [] c = "fyi"          -> "FYI"
          [] c = "low-priority" -> "Low Priority"]

\* LabelManager.labelMailboxIds after initialize(): classification -> mailbox id.
labelMailboxIds == [c \in Classification |-> CLASSIFICATION_LABELS[c]]

getClassificationMailboxIds == {labelMailboxIds[c] : c \in Classification}

inboxId == "inbox"
archiveId == "archive"

Folders == getClassificationMailboxIds \cup {inboxId, archiveId}

\* LabelManager.correctionMailboxId, and the subfolders the user has made
\* under it; the name of a subfolder is the correction text.
correctionMailboxId == "Fastermail-Correction"
CorrectionChildren == {"this is important", "just noise"}

NoRecord == [classification |-> "none", actionTaken |-> "none", digestId |-> 0]

\* The two revisions of cleanup/index.ts carried by the repository:
\* "archive" strips the labels and then calls archiveEmail,
\* "guard" adds an orphan to the archive folder and then strips the labels.
CleanupRevisions == {"archive", "guard"}

\* The two callers of generateDigest/sendDigest.
DigestRuns == {"scheduler", "cron"}

VARIABLES
    mailboxIds,   \* remote: message id -> set of mailbox ids ({} = not resolvable)
    digests,      \* Store: digests table, row id = index
    processed,    \* Store: processed_emails table, keyed by message id
    delivered,    \* remote: digest id -> number of digest mails submitted (0..2)
    tr,           \* TriageEngine poll cycle
    dg,           \* digest runs (DigestScheduler.runDigest, cron handler)
    cl,           \* runCleanup invocations, one per request being served
    ap,           \* a direct caller of LabelManager.applyClassificationLabel
    failures,     \* remote/store calls that have thrown so far
    userActs,     \* folder changes made by the user in their mail client
    mode,         \* TriageEngineConfig.mode
    rev,          \* revision of runCleanup in use
    fromSelf,     \* remote: the messages whose From is config.userEmail
    corrections,  \* Store: corrections table (append-only)
    mailboxes,    \* remote: the child mailboxes of the correction folder
    cp,           \* CorrectionProcessor sweep
    folders,      \* remote: the account's mailboxes (Mailbox/get list)
    lm,           \* LabelManager instances and their initialize() calls
    eng           \* TriageEngine: running flag, pollTimeout, armed timers

corrVars == <<corrections, mailboxes, cp>>

sysVars == <<folders, lm, eng>>

vars == <<mailboxIds, digests, processed, delivered, tr, dg, cl, ap,
          failures, userActs, mode, rev, fromSelf, corrVars, sysVars>>

storeVars == <<digests, processed, delivered>>

\* ---------------------------------------------------------- remote mailbox
\* Email/get: the message is returned only while it is in some mailbox.
getEmails(mb, e) == IF mb[e] = {} THEN {} ELSE {e}

\* Email/set {"mailboxIds/<id>": true}; an update of a message that no
\* longer exists is a per-record error, which the client does not raise.
addEmailToMailbox(mb, e, f) ==
    IF mb[e] = {} THEN mb ELSE [mb EXCEPT ![e] = @ \cup {f}]

\* Email/set {"mailboxIds/<id>": null}; a message left in no mailbox is
\* discarded by the server.
removeEmailFromMailbox(mb, e, f) == [mb EXCEPT ![e] = @ \ {f}]

\* A move that leaves the membership as it was.
moveEmailKeeping(mb, e, to) == mb

\* Email/set {mailboxIds: {<to>: true}}: replaces the whole membership.
moveEmail(mb, e, to) == [mb EXCEPT ![e] = {to}]

\* ----------------------------------------------------------- LabelManager
\* The removal loop of removeAllClassificationLabels: one removal per map
\* entry, in order; a removal listed in `failed` threw and was swallowed.
RECURSIVE removeLoop(_, _, _, _)
removeLoop(mb, e, failed, i) ==
    IF i > Len(ClassificationOrder) THEN mb
    ELSE LET f == labelMailboxIds[ClassificationOrder[i]]
         IN  removeLoop(IF f \in failed THEN mb
                        ELSE removeEmailFromMailbox(mb, e, f),
                        e, failed, i + 1)

\* The removal loop with a failed removal ending the loop (no try/catch
\* around the single removal).
RECURSIVE removeLoopAborting(_, _, _, _)
removeLoopAborting(mb, e, failed, i) ==
    IF i > Len(ClassificationOrder) THEN mb
    ELSE LET f == labelMailboxIds[ClassificationOrder[i]]
         IN  IF f \in failed THEN mb
             ELSE removeLoopAborting(removeEmailFromMailbox(mb, e, f),
                                     e, failed, i + 1)

removeAllAborting(mb, e, failed) == removeLoopAborting(mb, e, failed, 1)

removeAllClassificationLabels(mb, e, failed) == removeLoop(mb, e, failed, 1)

hasAnyClassificationMailbox(ids) ==
    \E c \in Classification : labelMailboxIds[c] \in ids

\* Sets of removals that may throw with the failure budget that is left.
FailSets == {F \in SUBSET getClassificationMailboxIds :
                failures + Cardinality(F) <= MaxFailures}

ApIdle == [pc |-> "idle", emailId |-> 0, classification |-> "none"]

\* applyClassificationLabel(emailId, classification) is entered.
ApplyCall(e, c) ==
    /\ ap.pc \in {"idle", "done", "threw"}
    /\ mailboxIds[e] # {}
    /\ ap' = [pc |-> "remove", emailId |-> e, classification |-> c]
    /\ UNCHANGED <<mailboxIds, storeVars, tr, dg, cl, failures, userActs, mode, rev, fromSelf, corrVars, sysVars>>

\* await this.removeAllClassificationLabels(emailId)
ApplyRemoveAll(failed) ==
    /\ ap.pc = "remove"
    /\ mailboxIds' = removeAllClassificationLabels(mailboxIds, ap.emailId, failed)
    /\ failures' = failures + Cardinality(failed)
    /\ ap' = [ap EXCEPT !.pc = "add"]
    /\ UNCHANGED <<storeVars, tr, dg, cl, userActs, mode, rev, fromSelf, corrVars, sysVars>>

\* await this.jmap.addEmailToMailbox(emailId, mailboxId) returns
ApplyAdd ==
    /\ ap.pc = "add"
    /\ mailboxIds' = addEmailToMailbox(mailboxIds, ap.emailId,
                                       labelMailboxIds[ap.classification])
    /\ ap' = [ap EXCEPT !.pc = "done"]
    /\ UNCHANGED <<storeVars, tr, dg, cl, failures, userActs, mode, rev, fromSelf, corrVars, sysVars>>

\* addEmailToMailbox throws (Email/set method error)
ApplyAddThrows ==
    /\ ap.pc = "add"
    /\ failures < MaxFailures
    /\ failures' = failures + 1
    /\ ap' = [ap EXCEPT !.pc = "threw"]
    /\ UNCHANGED <<mailboxIds, storeVars, tr, dg, cl, userActs, mode, rev, fromSelf, corrVars, sysVars>>

\* ------------------------------------------------------------------ Store
DigestIds == 1..Len(digests)

\* generateCleanupToken(): crypto.randomUUID(), a value no other row carries.
generateCleanupToken(ds) == 100 + Len(ds) + 1

\* SELECT * FROM digests WHERE status = 'pending' ORDER BY id DESC LIMIT 1
\* (0 when there is no such row)
PendingRows(ds) == {i \in 1..Len(ds) : ds[i].status = "pending"}
\* The SELECT of getPendingDigest finding no row whatever the table holds.
SelectPendingNone(ds) == 0

SelectPending(ds) ==
    IF PendingRows(ds) = {} THEN 0
    ELSE CHOOSE i \in PendingRows(ds) : \A j \in PendingRows(ds) : j <= i

\* INSERT INTO digests (cleanup_token, status, ...) VALUES (?, 'pending', ...)
createPendingDigest(ds) ==
    Append(ds, [status |-> "pending", cleanupToken |-> generateCleanupToken(ds)])

\* UPDATE digests SET status = 'sent', ... WHERE id = ?
markDigestSent(ds, id) == [ds EXCEPT ![id].status = "sent"]

\* UPDATE digests SET status = 'cleaned', cleaned_at = ? WHERE id = ?
markDigestCleaned(ds, id) == [ds EXCEPT ![id].status = "cleaned"]

\* getDigestByToken without its WHERE clause: the first row of the table.
getDigestByTokenAnyRow(ds, token) == IF Len(ds) = 0 THEN 0 ELSE 1

\* SELECT * FROM digests WHERE cleanup_token = ?  (first row, 0 when none)
getDigestByToken(ds, token) ==
    LET rows == {i \in 1..Len(ds) : ds[i].cleanupToken = token}
    IN  IF rows = {} THEN 0 ELSE CHOOSE i \in rows : \A j \in rows : i <= j

\* SELECT * FROM processed_emails WHERE digest_id = ?
getEmailsByDigestId(pr, id) == {e \in Emails : pr[e] # NoRecord /\ pr[e].digestId = id}

\* The ledger check answering "not processed" for every id.
isEmailProcessedNever(pr, e) == FALSE

\* SELECT 1 FROM processed_emails WHERE id = ?
isEmailProcessed(pr, e) == pr[e] # NoRecord

\* A set of message ids as the list the queries return it: received_at
\* descending; message ids are numbered in order of arrival.
RECURSIVE NewestFirst(_)
NewestFirst(S) ==
    IF S = {} THEN <<>>
    ELSE LET m == CHOOSE x \in S : \A y \in S : y <= x
         IN  <<m>> \o NewestFirst(S \ {m})

\* ----------------------------------------------------------- TriageEngine
\* The calls of poll() that can be in flight together: start() begins one
\* at once, and every timer armed by scheduleNextPoll begins one.
PollCalls == {"first", "second"}

\* batch, dropped and threw are history the properties read: the messages
\* the cycle set out to process, the fetched messages the filter dropped,
\* and the messages whose processing has thrown.  config: the corrections
\* of the classifierConfig the item loop classifies with.
TrIdle == [pc |-> "idle", queue |-> <<>>, passthrough |-> FALSE,
           classification |-> "none", actionTaken |-> "none", digestId |-> 0,
           batch |-> {}, dropped |-> {}, threw |-> {}, config |-> <<>>]

\* The limit of the inbox query of processNewEmails, and the size of the
\* batch it slices off the unprocessed ids.
QueryLimit == 500
batchSize == 50

\* slice(0, n) with no bound.
FirstOfAll(S, n) == S

\* The first n of the ids S taken newest first (the limit of Email/query
\* sorted by receivedAt descending, and slice(0, n) of a list in that
\* order): the ids with fewer than n newer ids in S.
FirstOf(S, n) == {e \in S : Cardinality({x \in S : x > e}) < n}

\* buildConfigFromStore asks for this many corrections.
RecentLimit == 10

\* getRecentCorrections keeping no row.
getRecentCorrectionsNone(limit) == <<>>

\* SELECT * FROM corrections ORDER BY created_at DESC LIMIT ?: the ids of
\* the newest rows, newest first (a row's id is its place in corrections).
getRecentCorrections(limit) ==
    LET n == Len(corrections)
        m == IF n < limit THEN n ELSE limit
    IN  [i \in 1..m |-> n + 1 - i]

\* processNewEmails up to the item loop: query the inbox (QueryLimit ids,
\* newest first), drop the ids that have a ledger row, keep the first
\* batchSize of the rest, fetch, drop what the account sent itself and what
\* already carries a classification mailbox.  If nothing is left the fetched messages are marked processed;
\* if no id is unprocessed the call returns.
processNewEmails(mb, pr) ==
    LET emailIds == FirstOf({e \in DOMAIN mb : inboxId \in mb[e]}, QueryLimit)
        unprocessedIds == {e \in emailIds : ~isEmailProcessed(pr, e)}
        idsToProcess == FirstOf(unprocessedIds, batchSize)
        emailsToProcess ==
            {e \in idsToProcess :
                e \notin fromSelf /\ ~hasAnyClassificationMailbox(mb[e])}
    IN  IF emailsToProcess = {}
        THEN [TrIdle EXCEPT !.pc = "next", !.passthrough = TRUE,
                            !.queue = NewestFirst(idsToProcess),
                            !.batch = idsToProcess,
                            !.dropped = idsToProcess,
                            !.classification = "fyi",
                            !.actionTaken = "labeled"]
        ELSE [TrIdle EXCEPT !.pc = "next",
                            !.queue = NewestFirst(emailsToProcess),
                            !.batch = emailsToProcess,
                            !.dropped = idsToProcess \ emailsToProcess,
                            !.config = getRecentCorrections(RecentLimit)]

\* A poll cycle that finds unprocessed mail in the inbox.
TriagePoll(k) ==
    /\ tr[k].pc = "idle"
    /\ processNewEmails(mailboxIds, processed).queue # <<>>
    /\ tr' = [tr EXCEPT ![k] = processNewEmails(mailboxIds, processed)]
    /\ UNCHANGED <<mailboxIds, storeVars, dg, cl, ap, failures, userActs, mode, rev, fromSelf, corrVars, sysVars>>

\* The item loop is exhausted: processNewEmails and poll() return.
PollReturns(k) ==
    /\ tr[k].pc = "next"
    /\ tr[k].queue = <<>>
    /\ tr' = [tr EXCEPT ![k] = TrIdle]
    /\ UNCHANGED <<mailboxIds, storeVars, dg, cl, ap, failures, userActs, mode, rev, fromSelf, corrVars, folders, lm>>

\* The cycle ends.
TriageCycleEnd(k) ==
    /\ PollReturns(k)
    /\ UNCHANGED eng

\* Passthrough loop: markAsProcessed(email, "fyi", 1, "Already labeled", "labeled")
TriagePassthroughItem(k) ==
    /\ tr[k].pc = "next"
    /\ tr[k].queue # <<>>
    /\ tr[k].passthrough
    /\ tr' = [tr EXCEPT ![k].pc = "mark_get"]
    /\ UNCHANGED <<mailboxIds, storeVars, dg, cl, ap, failures, userActs, mode, rev, fromSelf, corrVars, sysVars>>

\* processEmail: classify, then applyClassificationLabel's removal loop.
TriageClassify(k, c, failed) ==
    /\ tr[k].pc = "next"
    /\ tr[k].queue # <<>>
    /\ ~tr[k].passthrough
    /\ mailboxIds' = removeAllClassificationLabels(mailboxIds, Head(tr[k].queue), failed)
    /\ failures' = failures + Cardinality(failed)
    /\ tr' = [tr EXCEPT ![k].pc = "apply_add", ![k].classification = c]
    /\ UNCHANGED <<storeVars, dg, cl, ap, userActs, mode, rev, fromSelf, corrVars, sysVars>>

\* applyClassificationLabel: add to the mailbox of the classification.
TriageApplyAdd(k) ==
    /\ tr[k].pc = "apply_add"
    /\ mailboxIds' = addEmailToMailbox(mailboxIds, Head(tr[k].queue),
                                       labelMailboxIds[tr[k].classification])
    /\ tr' = [tr EXCEPT ![k].pc = "rm_inbox"]
    /\ UNCHANGED <<storeVars, dg, cl, ap, failures, userActs, mode, rev, fromSelf, corrVars, sysVars>>

\* Remove from inbox; then the action is determined.
TriageRemoveInbox(k) ==
    /\ tr[k].pc = "rm_inbox"
    /\ mailboxIds' = removeEmailFromMailbox(mailboxIds, Head(tr[k].queue), inboxId)
    /\ tr' = IF mode = "triage"
             THEN IF tr[k].classification = "low-priority"
                  THEN [tr EXCEPT ![k].pc = "archive"]
                  ELSE [tr EXCEPT ![k].pc = "mark_get", ![k].actionTaken = "kept"]
             ELSE [tr EXCEPT ![k].pc = "mark_get", ![k].actionTaken = "labeled"]
    /\ UNCHANGED <<storeVars, dg, cl, ap, failures, userActs, mode, rev, fromSelf, corrVars, sysVars>>

\* archiveEmail -> moveEmail: throws "Email not found" for a message that is
\* gone (the item is skipped), otherwise the membership becomes {archive}.
TriageArchive(k) ==
    /\ tr[k].pc = "archive"
    /\ IF getEmails(mailboxIds, Head(tr[k].queue)) = {}
       THEN /\ tr' = [tr EXCEPT ![k].pc = "next", ![k].queue = Tail(@),
                                 ![k].threw = @ \cup {Head(tr[k].queue)}]
            /\ UNCHANGED mailboxIds
       ELSE /\ mailboxIds' = moveEmail(mailboxIds, Head(tr[k].queue), archiveId)
            /\ tr' = [tr EXCEPT ![k].pc = "mark_get", ![k].actionTaken = "archived"]
    /\ UNCHANGED <<storeVars, dg, cl, ap, failures, userActs, mode, rev, fromSelf, corrVars, sysVars>>

\* markAsProcessed: getPendingDigest's SELECT.
TriageMarkGet(k) ==
    /\ tr[k].pc = "mark_get"
    /\ tr' = IF SelectPending(digests) # 0
             THEN [tr EXCEPT ![k].pc = "mark_save",
                             ![k].digestId = SelectPending(digests)]
             ELSE [tr EXCEPT ![k].pc = "mark_create"]
    /\ UNCHANGED <<mailboxIds, storeVars, dg, cl, ap, failures, userActs, mode, rev, fromSelf, corrVars, sysVars>>

\* getPendingDigest found no pending row: createPendingDigest's INSERT.
TriageMarkCreate(k) ==
    /\ tr[k].pc = "mark_create"
    /\ Len(digests) < MaxDigests
    /\ digests' = createPendingDigest(digests)
    /\ tr' = [tr EXCEPT ![k].pc = "mark_save", ![k].digestId = Len(digests) + 1]
    /\ UNCHANGED <<mailboxIds, processed, delivered, dg, cl, ap, failures, userActs, mode, rev, fromSelf, corrVars, sysVars>>

\* saveProcessedEmail (INSERT OR REPLACE), then the next item.
TriageMarkSave(k) ==
    /\ tr[k].pc = "mark_save"
    /\ processed' = [processed EXCEPT ![Head(tr[k].queue)] =
                        [classification |-> tr[k].classification,
                         actionTaken |-> tr[k].actionTaken,
                         digestId |-> tr[k].digestId]]
    /\ tr' = [tr EXCEPT ![k].pc = "next", ![k].queue = Tail(@), ![k].digestId = 0,
                        ![k].classification = IF tr[k].passthrough THEN "fyi" ELSE "none",
                        ![k].actionTaken = IF tr[k].passthrough THEN "labeled" ELSE "none"]
    /\ UNCHANGED <<mailboxIds, digests, delivered, dg, cl, ap, failures, userActs, mode, rev, fromSelf, corrVars, sysVars>>

\* A thrown item ending the cycle as in a loop without a catch.
TriageItemThrowsEndingCycle(k) ==
    /\ tr[k].pc \in {"next", "apply_add", "rm_inbox", "archive",
                     "mark_get", "mark_create", "mark_save"}
    /\ tr[k].queue # <<>>
    /\ failures < MaxFailures
    /\ failures' = failures + 1
    /\ tr' = [tr EXCEPT ![k].pc = "next", ![k].queue = <<>>, ![k].digestId = 0,
                        ![k].threw = @ \cup {Head(tr[k].queue)}]
    /\ UNCHANGED <<mailboxIds, storeVars, dg, cl, ap, userActs, mode, rev, fromSelf, corrVars, sysVars>>

\* A call of processEmail throws (classifier, Email/set or Store error): the
\* loop's catch logs it and goes on with the next item.  In the passthrough
\* loop there is no catch: the error leaves the loop for poll()'s catch and
\* poll() returns.
TriageItemThrows(k) ==
    /\ tr[k].pc \in {"next", "apply_add", "rm_inbox", "archive",
                     "mark_get", "mark_create", "mark_save"}
    /\ tr[k].queue # <<>>
    /\ failures < MaxFailures
    /\ failures' = failures + 1
    /\ tr' = [tr EXCEPT ![k].pc = "next",
                        ![k].queue = IF tr[k].passthrough THEN <<>> ELSE Tail(@),
                        ![k].threw = @ \cup {Head(tr[k].queue)},
                        ![k].digestId = 0,
                        ![k].classification = IF tr[k].passthrough THEN "fyi" ELSE "none",
                        ![k].actionTaken = IF tr[k].passthrough THEN "labeled" ELSE "none"]
    /\ UNCHANGED <<mailboxIds, storeVars, dg, cl, ap, userActs, mode, rev, fromSelf, corrVars, sysVars>>

\* ------------------------------------- DigestGenerator / DigestScheduler
DgIdle == [pc |-> "idle", id |-> 0]

\* The filter letting every classified row through.
DigestEligibleAnyRow(r) == r.classification # "none"

\* Filter of generateDigest: low-priority, fyi or archived.
DigestEligible(r) ==
    \/ r.classification = "low-priority"
    \/ r.classification = "fyi"
    \/ r.actionTaken = "archived"

digestEmails(pr, id) == {e \in getEmailsByDigestId(pr, id) : DigestEligible(pr[e])}

\* runDigest / cron handler -> generateDigest: getPendingDigest's SELECT.
DigestTrigger(r) ==
    /\ dg[r].pc = "idle"
    /\ dg' = [dg EXCEPT ![r] =
                IF SelectPending(digests) # 0
                THEN [pc |-> "gen_read", id |-> SelectPending(digests)]
                ELSE [pc |-> "gen_create", id |-> 0]]
    /\ UNCHANGED <<mailboxIds, storeVars, tr, cl, ap, failures, userActs, mode, rev, fromSelf, corrVars, sysVars>>

\* getPendingDigest found no pending row: createPendingDigest's INSERT.
DigestGenCreate(r) ==
    /\ dg[r].pc = "gen_create"
    /\ Len(digests) < MaxDigests
    /\ digests' = createPendingDigest(digests)
    /\ dg' = [dg EXCEPT ![r] = [pc |-> "gen_read", id |-> Len(digests) + 1]]
    /\ UNCHANGED <<mailboxIds, processed, delivered, tr, cl, ap, failures, userActs, mode, rev, fromSelf, corrVars, sysVars>>

\* getEmailsByDigestId and the filter; null ("nothing to send") ends the run,
\* otherwise the digest is rendered and sendDigest creates the draft.
DigestGenRead(r) ==
    /\ dg[r].pc = "gen_read"
    /\ dg' = [dg EXCEPT ![r] =
                IF digestEmails(processed, dg[r].id) = {} THEN DgIdle
                ELSE [@ EXCEPT !.pc = "send"]]
    /\ UNCHANGED <<mailboxIds, storeVars, tr, cl, ap, failures, userActs, mode, rev, fromSelf, corrVars, sysVars>>

\* sendDigest: jmap.sendEmail(draftId) submits the digest mail.
DigestSend(r) ==
    /\ dg[r].pc = "send"
    /\ delivered' = [delivered EXCEPT ![dg[r].id] = IF @ < 2 THEN @ + 1 ELSE @]
    /\ dg' = [dg EXCEPT ![r].pc = "mark_sent"]
    /\ UNCHANGED <<mailboxIds, digests, processed, tr, cl, ap, failures, userActs, mode, rev, fromSelf, corrVars, sysVars>>

\* sendDigest: store.markDigestSent(digest.id, ...)
DigestMarkSent(r) ==
    /\ dg[r].pc = "mark_sent"
    /\ digests' = markDigestSent(digests, dg[r].id)
    /\ dg' = [dg EXCEPT ![r].pc = "create_pending"]
    /\ UNCHANGED <<mailboxIds, processed, delivered, tr, cl, ap, failures, userActs, mode, rev, fromSelf, corrVars, sysVars>>

\* sendDigest: store.createPendingDigest(); sendDigest has completed.
DigestCreatePending(r) ==
    /\ dg[r].pc = "create_pending"
    /\ Len(digests) < MaxDigests
    /\ digests' = createPendingDigest(digests)
    /\ dg' = [dg EXCEPT ![r].pc = "sent"]
    /\ UNCHANGED <<mailboxIds, processed, delivered, tr, cl, ap, failures, userActs, mode, rev, fromSelf, corrVars, sysVars>>

\* The caller returns after a completed send.
DigestReturn(r) ==
    /\ dg[r].pc = "sent"
    /\ dg' = [dg EXCEPT ![r] = DgIdle]
    /\ UNCHANGED <<mailboxIds, storeVars, tr, cl, ap, failures, userActs, mode, rev, fromSelf, corrVars, sysVars>>

\* createDraft, sendEmail, markDigestSent or createPendingDigest throws: the
\* caller's catch logs the error and the run is over.
DigestThrows(r) ==
    /\ dg[r].pc \in {"send", "mark_sent", "create_pending"}
    /\ failures < MaxFailures
    /\ failures' = failures + 1
    /\ dg' = [dg EXCEPT ![r] = DgIdle]
    /\ UNCHANGED <<mailboxIds, storeVars, tr, cl, ap, userActs, mode, rev, fromSelf, corrVars, sysVars>>

\* -------------------------------------------------------------- runCleanup
\* Requests to the cleanup endpoint that the HTTP server may be serving at
\* the same time.
CleanupRequests == {"first", "second"}

NoResult == [success |-> FALSE, archived |-> 0, kept |-> 0, deleted |-> 0,
             alreadyCleaned |-> FALSE, error |-> "none"]

\* Fields of an invocation; the last seven are history the properties read:
\* what each fetch observed (seenIn/seenOut/seenGone, orphans), how many
\* items ended in the catch (caught), the messages during whose processing
\* a remote call threw (threw) and how many rows were read (total).
ClIdle == [pc |-> "idle", token |-> 0, id |-> 0, emails |-> <<>>,
           isInInbox |-> FALSE, archived |-> 0, kept |-> 0, deleted |-> 0,
           result |-> NoResult, repeat |-> FALSE, done |-> {},
           seenIn |-> 0, seenOut |-> 0, seenGone |-> 0, orphans |-> {},
           caught |-> 0, threw |-> {}, total |-> 0]

\* Tokens a caller may present: the cleanup link of every digest mail that
\* was submitted, and a token that no row carries.
InvalidToken == 100
Tokens == {InvalidToken} \cup
          {digests[i].cleanupToken : i \in {j \in DigestIds : delivered[j] > 0}}

\* runCleanup returns res; done collects the tokens whose call succeeded.
ClReturn(c, res) ==
    [c EXCEPT !.pc = "returned", !.result = res, !.emails = <<>>,
              !.isInInbox = FALSE, !.archived = 0, !.kept = 0, !.deleted = 0,
              !.done = IF res.success THEN @ \cup {c.token} ELSE @]

\* cleanup(token) is called: getDigestByToken and the two early returns.
\* repeat records that a call with this token has returned success before.
CleanupCall(q, token) ==
    /\ cl[q].pc \in {"idle", "returned"}
    /\ LET id == getDigestByToken(digests, token)
           succeeded == UNION {cl[p].done : p \in CleanupRequests}
           c0 == [ClIdle EXCEPT !.token = token, !.id = id, !.done = cl[q].done,
                                !.repeat = (token \in succeeded)]
       IN  cl' = [cl EXCEPT ![q] =
                 IF id = 0
                 THEN ClReturn(c0, [NoResult EXCEPT !.error = "Invalid or expired token"])
                 ELSE IF digests[id].status = "cleaned"
                 THEN ClReturn(c0, [NoResult EXCEPT !.success = TRUE,
                                                    !.alreadyCleaned = TRUE])
                 ELSE [c0 EXCEPT !.pc = "get_emails"]]
    /\ UNCHANGED <<mailboxIds, storeVars, tr, dg, ap, failures, userActs, mode, rev, fromSelf, corrVars, sysVars>>

\* store.getEmailsByDigestId(digest.id), then the inbox (and archive)
\* mailbox is looked up.  With no rows the code marks the digest cleaned
\* and returns zero counts at once, which is what the exhausted loop
\* (CleanupMark) does as well.
CleanupGetEmails(q) ==
    /\ cl[q].pc = "get_emails"
    /\ LET emails == NewestFirst(getEmailsByDigestId(processed, cl[q].id))
       IN  cl' = [cl EXCEPT ![q] =
                    [@ EXCEPT !.pc = "fetch", !.emails = emails, !.total = Len(emails)]]
    /\ UNCHANGED <<mailboxIds, storeVars, tr, dg, ap, failures, userActs, mode, rev, fromSelf, corrVars, sysVars>>

\* The guard revision's test: the message is in no mailbox other than the
\* classification mailboxes (and an archive mailbox exists).
WouldBeOrphaned(currentMailboxIds) ==
    currentMailboxIds \ getClassificationMailboxIds = {}

\* Loop body, first await: jmap.getEmails([email.id]).  A message that is
\* not returned counts as deleted; otherwise isInInbox is taken from the
\* fetched membership and, in the guard revision, an orphan goes to the
\* archive-add step first.
CleanupFetch(q) ==
    /\ cl[q].pc = "fetch"
    /\ cl[q].emails # <<>>
    /\ LET e == Head(cl[q].emails)
           currentMailboxIds == mailboxIds[e]
           isInInbox == inboxId \in currentMailboxIds
       IN  cl' = [cl EXCEPT ![q] =
                 IF getEmails(mailboxIds, e) = {}
                 THEN [@ EXCEPT !.deleted = @ + 1, !.emails = Tail(@),
                                !.seenGone = @ + 1]
                 ELSE [@ EXCEPT !.isInInbox = isInInbox,
                          !.pc = IF rev = "guard" /\ WouldBeOrphaned(currentMailboxIds)
                                 THEN "guard_add" ELSE "strip",
                          !.seenIn = IF isInInbox THEN @ + 1 ELSE @,
                          !.seenOut = IF isInInbox THEN @ ELSE @ + 1,
                          !.orphans = IF currentMailboxIds \subseteq getClassificationMailboxIds
                                      THEN @ \cup {e} ELSE @]]
    /\ UNCHANGED <<mailboxIds, storeVars, tr, dg, ap, failures, userActs, mode, rev, fromSelf, corrVars, sysVars>>

\* Guard revision: jmap.addEmailToMailbox(email.id, archiveId)
CleanupGuardAdd(q) ==
    /\ cl[q].pc = "guard_add"
    /\ mailboxIds' = addEmailToMailbox(mailboxIds, Head(cl[q].emails), archiveId)
    /\ cl' = [cl EXCEPT ![q].pc = "strip"]
    /\ UNCHANGED <<storeVars, tr, dg, ap, failures, userActs, mode, rev, fromSelf, corrVars, sysVars>>

\* Outcome with the inbox test inverted.
OutcomeInverted(isInInbox) == IF isInInbox THEN "archived" ELSE "kept"

\* The bucket of a message whose labels were stripped.
Outcome(isInInbox) == IF isInInbox THEN "kept" ELSE "archived"

\* labelManager.removeAllClassificationLabels(email.id), then the outcome:
\* kept if the message was in the inbox; otherwise archived (guard revision)
\* or on to archiveEmail (archive revision).  Removals that throw are
\* swallowed inside removeAllClassificationLabels.
CleanupStrip(q, failed) ==
    /\ cl[q].pc = "strip"
    /\ mailboxIds' = removeAllClassificationLabels(mailboxIds, Head(cl[q].emails), failed)
    /\ failures' = failures + Cardinality(failed)
    /\ LET c == [cl[q] EXCEPT !.threw = IF failed = {} THEN @
                                        ELSE @ \cup {Head(cl[q].emails)}]
       IN  cl' = [cl EXCEPT ![q] =
                 IF Outcome(c.isInInbox) = "kept"
                 THEN [c EXCEPT !.pc = "fetch", !.kept = @ + 1, !.emails = Tail(@),
                                !.isInInbox = FALSE]
                 ELSE IF rev = "guard"
                 THEN [c EXCEPT !.pc = "fetch", !.archived = @ + 1, !.emails = Tail(@)]
                 ELSE [c EXCEPT !.pc = "archive"]]
    /\ UNCHANGED <<storeVars, tr, dg, ap, userActs, mode, rev, fromSelf, corrVars, sysVars>>

\* Archive revision: jmap.archiveEmail(email.id) -> moveEmail, which throws
\* "Email not found" for a message that is gone (caught: deleted++).
CleanupArchive(q) ==
    /\ cl[q].pc = "archive"
    /\ IF getEmails(mailboxIds, Head(cl[q].emails)) = {}
       THEN /\ cl' = [cl EXCEPT ![q] =
                        [@ EXCEPT !.pc = "fetch", !.deleted = @ + 1,
                                  !.threw = @ \cup {Head(cl[q].emails)},
                                  !.emails = Tail(@), !.caught = @ + 1]]
            /\ UNCHANGED mailboxIds
       ELSE /\ mailboxIds' = moveEmail(mailboxIds, Head(cl[q].emails), archiveId)
            /\ cl' = [cl EXCEPT ![q] =
                        [@ EXCEPT !.pc = "fetch", !.archived = @ + 1, !.emails = Tail(@)]]
    /\ UNCHANGED <<storeVars, tr, dg, ap, failures, userActs, mode, rev, fromSelf, corrVars, sysVars>>

\* A remote call of the loop body throws: the catch counts the message as
\* deleted and the loop goes on.
CleanupItemThrows(q) ==
    /\ cl[q].pc \in {"fetch", "guard_add", "archive"}
    /\ cl[q].emails # <<>>
    /\ failures < MaxFailures
    /\ failures' = failures + 1
    /\ cl' = [cl EXCEPT ![q] =
                [@ EXCEPT !.pc = "fetch", !.deleted = @ + 1,
                          !.threw = @ \cup {Head(cl[q].emails)},
                          !.emails = Tail(@),
                          !.isInInbox = FALSE, !.caught = @ + 1]]
    /\ UNCHANGED <<mailboxIds, storeVars, tr, dg, ap, userActs, mode, rev, fromSelf, corrVars, sysVars>>

\* After the loop (or with no rows at all): markDigestCleaned and return
\* the counts.
CleanupMark(q) ==
    /\ cl[q].pc = "fetch"
    /\ cl[q].emails = <<>>
    /\ digests' = markDigestCleaned(digests, cl[q].id)
    /\ cl' = [cl EXCEPT ![q] =
                ClReturn(@, [NoResult EXCEPT !.success = TRUE,
                                !.archived = cl[q].archived, !.kept = cl[q].kept,
                                !.deleted = cl[q].deleted])]
    /\ UNCHANGED <<mailboxIds, processed, delivered, tr, dg, ap, failures, userActs, mode, rev, fromSelf, corrVars, sysVars>>

\* ---------------------------------------------------- CorrectionProcessor
\* parseCorrection(text): the classification the parser reads in the text
\* (the parser's own default is fyi).
parseCorrection(text) ==
    CASE text = "this is important" -> "important"
      [] text = "just noise"        -> "low-priority"
      [] OTHER                      -> "fyi"

\* findCorrectionText: the name of a child of the correction folder the
\* message is in, "none" (null) without one.
findCorrectionText(ids, boxes) ==
    IF ids \cap boxes = {} THEN "none" ELSE CHOOSE m \in ids \cap boxes : TRUE

\* The ids scanForCorrections queries: the messages in the correction
\* folder or in one of its children.
CorrectionEmailIds(mb, boxes) ==
    {e \in Emails : mb[e] \cap ({correctionMailboxId} \cup boxes) # {}}

\* The entry of one message in the list scanForCorrections returns.
PendingCorrection(mb, pr, boxes, e) ==
    [emailId |-> e,
     mailboxIds |-> mb[e],
     correctionText |-> findCorrectionText(mb[e], boxes),
     originalClassification |->
         IF pr[e] = NoRecord THEN "unknown" ELSE pr[e].classification]

\* scanForCorrections leaving out the messages that have a Correction row.
scanSkippingCorrected(mb, pr, boxes) ==
    LET found == {e \in CorrectionEmailIds(mb, boxes) :
                     /\ findCorrectionText(mb[e], boxes) # "none"
                     /\ \A k \in 1..Len(corrections) : corrections[k].emailId # e}
        order == NewestFirst(found)
    IN  [k \in 1..Len(order) |-> PendingCorrection(mb, pr, boxes, order[k])]

scanForCorrections(mb, pr, boxes) ==
    LET found == {e \in CorrectionEmailIds(mb, boxes) :
                     findCorrectionText(mb[e], boxes) # "none"}
        order == NewestFirst(found)
    IN  [k \in 1..Len(order) |-> PendingCorrection(mb, pr, boxes, order[k])]

\* updateEmailClassification writing the classification the row held.
updateEmailClassificationStale(pr, e, c) == pr

\* UPDATE processed_emails SET classification = ? WHERE id = ?
\* (no row, no change)
updateEmailClassification(pr, e, c) ==
    IF pr[e] = NoRecord THEN pr ELSE [pr EXCEPT ![e].classification = c]

\* Fields of the sweep; owed is history the properties read: the messages
\* whose processing threw after the label was re-applied and the ledger
\* updated, before any removal from the correction folders.
CpIdle == [pc |-> "idle", pending |-> <<>>, i |-> 0, parsed |-> "none",
           toRemove |-> {}, toDelete |-> {}, removed |-> FALSE, owed |-> {}]

Current == cp.pending[cp.i]

\* The loop of processAllCorrections goes to its next entry.
NextCorrection(c) ==
    [c EXCEPT !.pc = "parse", !.i = @ + 1, !.parsed = "none",
              !.toRemove = {}, !.toDelete = {}, !.removed = FALSE]

\* processAllCorrections: scanForCorrections; an empty list ends the sweep.
CorrScan ==
    /\ cp.pc = "idle"
    /\ LET pending == scanForCorrections(mailboxIds, processed, mailboxes)
       IN  /\ pending # <<>>
           /\ cp' = [CpIdle EXCEPT !.pc = "parse", !.pending = pending, !.i = 1,
                                   !.owed = cp.owed]
    /\ UNCHANGED <<mailboxIds, storeVars, tr, dg, cl, ap, failures, userActs,
                   mode, rev, fromSelf, corrections, mailboxes, sysVars>>

\* The list is exhausted: the sweep returns.
CorrSweepEnd ==
    /\ cp.pc = "parse"
    /\ cp.i > Len(cp.pending)
    /\ cp' = [CpIdle EXCEPT !.owed = cp.owed]
    /\ UNCHANGED <<mailboxIds, storeVars, tr, dg, cl, ap, failures, userActs,
                   mode, rev, fromSelf, corrections, mailboxes, sysVars>>

\* processCorrection: parseCorrection, then store.saveCorrection.
CorrSave ==
    /\ cp.pc = "parse"
    /\ cp.i <= Len(cp.pending)
    /\ LET parsed == parseCorrection(Current.correctionText)
       IN  /\ corrections' = Append(corrections,
                  [emailId |-> Current.emailId,
                   originalClassification |-> Current.originalClassification,
                   correctedClassification |-> parsed])
           /\ cp' = [cp EXCEPT !.pc = "apply_remove", !.parsed = parsed,
                               !.owed = @ \ {Current.emailId}]
    /\ UNCHANGED <<mailboxIds, storeVars, tr, dg, cl, ap, failures, userActs,
                   mode, rev, fromSelf, mailboxes, sysVars>>

\* applyClassificationLabel: the removal loop.
CorrApplyRemove(failed) ==
    /\ cp.pc = "apply_remove"
    /\ mailboxIds' = removeAllClassificationLabels(mailboxIds, Current.emailId, failed)
    /\ failures' = failures + Cardinality(failed)
    /\ cp' = [cp EXCEPT !.pc = "apply_add"]
    /\ UNCHANGED <<storeVars, tr, dg, cl, ap, userActs, mode, rev, fromSelf,
                   corrections, mailboxes, sysVars>>

\* applyClassificationLabel: add to the mailbox of the new classification.
CorrApplyAdd ==
    /\ cp.pc = "apply_add"
    /\ mailboxIds' = addEmailToMailbox(mailboxIds, Current.emailId,
                                       labelMailboxIds[cp.parsed])
    /\ cp' = [cp EXCEPT !.pc = "update"]
    /\ UNCHANGED <<storeVars, tr, dg, cl, ap, failures, userActs, mode, rev, fromSelf,
                   corrections, mailboxes, sysVars>>

\* store.updateEmailClassification(emailId, newClassification)
CorrUpdate ==
    /\ cp.pc = "update"
    /\ processed' = updateEmailClassification(processed, Current.emailId, cp.parsed)
    /\ cp' = [cp EXCEPT !.pc = "cleanup_get"]
    /\ UNCHANGED <<mailboxIds, digests, delivered, tr, dg, cl, ap, failures,
                   userActs, mode, rev, fromSelf, corrections, mailboxes, sysVars>>

\* cleanupCorrectionLabels: getMailboxes; of the mailboxes the message was
\* in at scan time, the children of the correction folder are to be left
\* and deleted, the correction folder itself is to be left.
CorrCleanupGet ==
    /\ cp.pc = "cleanup_get"
    /\ cp' = [cp EXCEPT !.pc = "cleanup_rm",
                        !.toRemove = Current.mailboxIds \cap
                                        (mailboxes \cup {correctionMailboxId}),
                        !.toDelete = Current.mailboxIds \cap mailboxes]
    /\ UNCHANGED <<mailboxIds, storeVars, tr, dg, cl, ap, failures, userActs,
                   mode, rev, fromSelf, corrections, mailboxes, sysVars>>

\* cleanupCorrectionLabels: one removeEmailFromMailbox of the first loop.
CorrCleanupRemove(f) ==
    /\ cp.pc = "cleanup_rm"
    /\ f \in cp.toRemove
    /\ mailboxIds' = removeEmailFromMailbox(mailboxIds, Current.emailId, f)
    /\ cp' = [cp EXCEPT !.toRemove = @ \ {f}, !.removed = TRUE]
    /\ UNCHANGED <<storeVars, tr, dg, cl, ap, failures, userActs, mode, rev, fromSelf,
                   corrections, mailboxes, sysVars>>

\* cleanupCorrectionLabels: the deleteMailbox loop (a child that still holds
\* messages is not destroyed, an error is caught), then the next entry.
CorrCleanupDelete ==
    /\ cp.pc = "cleanup_rm"
    /\ cp.toRemove = {}
    /\ mailboxes' = mailboxes \ {m \in cp.toDelete :
                                    \A e \in Emails : m \notin mailboxIds[e]}
    /\ cp' = NextCorrection(cp)
    /\ UNCHANGED <<mailboxIds, storeVars, tr, dg, cl, ap, failures, userActs,
                   mode, rev, fromSelf, corrections, sysVars>>

\* A call of processCorrection throws (parser, Store or Email/set error):
\* the catch of processAllCorrections logs it and goes on with the next
\* entry.
CorrItemThrows ==
    /\ \/ cp.pc \in {"apply_add", "update", "cleanup_get"}
       \/ cp.pc = "parse" /\ cp.i <= Len(cp.pending)
       \/ cp.pc = "cleanup_rm" /\ cp.toRemove # {}
    /\ failures < MaxFailures
    /\ failures' = failures + 1
    /\ cp' = [NextCorrection(cp) EXCEPT
                 !.owed = IF cp.pc = "cleanup_get" \/ (cp.pc = "cleanup_rm" /\ ~cp.removed)
                          THEN @ \cup {Current.emailId} ELSE @]
    /\ UNCHANGED <<mailboxIds, storeVars, tr, dg, cl, ap, userActs, mode, rev, fromSelf,
                   corrections, mailboxes, sysVars>>

\* --------------------------------------- TriageEngine start / stop / timer
\* Handles of the timers setTimeout has armed.
TimerIds == 1..MaxTimers

\* TriageEngine.pollTimeout when no handle is kept.
NoTimer == 0

\* TriageEngine before start().  timers are the armed timers of the event
\* loop.  stopped and awaited are history the properties read: stop() was
\* called with a cycle in flight and start() has not been called since, and
\* the cycles that were in flight at that call and have not returned;
\* overlapped: start() has been called with a cycle in flight.
EngIdle == [running |-> FALSE, pollTimeout |-> NoTimer, timers |-> {},
            stopped |-> FALSE, awaited |-> {}, overlapped |-> FALSE]

\* The calls of poll() that have not returned.
InFlight == {k \in PollCalls : tr[k].pc # "idle"}

\* A handle no armed timer and no field holds.
FreeTimers(e) == {t \in TimerIds : t \notin e.timers /\ t # e.pollTimeout}

\* scheduleNextPoll: nothing if not running, else a new timer whose handle
\* replaces pollTimeout.
scheduleNextPoll(e) ==
    IF ~e.running THEN e
    ELSE LET t == CHOOSE t \in FreeTimers(e) : TRUE
         IN  [e EXCEPT !.timers = @ \cup {t}, !.pollTimeout = t]

\* start(): returns at once if running; else running = true and poll() is
\* called.
EngineStart(k) ==
    /\ ~eng.running
    /\ tr[k].pc = "idle"
    /\ eng' = [eng EXCEPT !.running = TRUE, !.stopped = FALSE, !.awaited = {},
                          !.overlapped = @ \/ InFlight # {}]
    /\ tr' = [tr EXCEPT ![k].pc = "called"]
    /\ UNCHANGED <<mailboxIds, storeVars, dg, cl, ap, failures, userActs,
                   mode, rev, fromSelf, corrVars, folders, lm>>

\* stop(): running = false, the timer pollTimeout holds is cleared.
EngineStop ==
    /\ eng' = [eng EXCEPT !.running = FALSE,
                          !.timers = @ \ {eng.pollTimeout},
                          !.pollTimeout = NoTimer,
                          !.stopped = @ \/ InFlight # {},
                          !.awaited = IF InFlight # {} THEN InFlight ELSE @]
    /\ UNCHANGED <<mailboxIds, storeVars, tr, dg, cl, ap, failures, userActs,
                   mode, rev, fromSelf, corrVars, folders, lm>>

\* An armed timer fires: its callback calls poll().
EngineTimer(t, k) ==
    /\ t \in eng.timers
    /\ tr[k].pc = "idle"
    /\ eng' = [eng EXCEPT !.timers = @ \ {t}]
    /\ tr' = [tr EXCEPT ![k].pc = "called"]
    /\ UNCHANGED <<mailboxIds, storeVars, dg, cl, ap, failures, userActs,
                   mode, rev, fromSelf, corrVars, folders, lm>>

\* poll(): no correction is waiting, processNewEmails up to the item loop.
EnginePoll(k) ==
    /\ tr[k].pc = "called"
    /\ scanForCorrections(mailboxIds, processed, mailboxes) = <<>>
    /\ tr' = [tr EXCEPT ![k] = processNewEmails(mailboxIds, processed)]
    /\ UNCHANGED <<mailboxIds, storeVars, dg, cl, ap, failures, userActs,
                   mode, rev, fromSelf, corrVars, sysVars>>

\* The inbox query throws: poll()'s catch, poll() returns.
EnginePollThrows(k) ==
    /\ tr[k].pc = "called"
    /\ failures < MaxFailures
    /\ failures' = failures + 1
    /\ tr' = [tr EXCEPT ![k].pc = "next"]
    /\ UNCHANGED <<mailboxIds, storeVars, dg, cl, ap, userActs,
                   mode, rev, fromSelf, corrVars, sysVars>>

\* poll() has returned to start() or to the timer callback, which calls
\* scheduleNextPoll.
EngineCycleEnd(k) ==
    /\ PollReturns(k)
    /\ eng.running => FreeTimers(eng) # {}
    /\ eng' = [scheduleNextPoll(eng) EXCEPT !.awaited = @ \ {k}]

\* ------------------------------------------- poll(): sweep, then new mail
\* poll() awaits processAllCorrections; scanForCorrections finds pending
\* corrections and the loop over them begins.
PollSweepBegins(k) ==
    /\ tr[k].pc = "called"
    /\ cp.pc = "idle"
    /\ LET pending == scanForCorrections(mailboxIds, processed, mailboxes)
       IN  /\ pending # <<>>
           /\ cp' = [CpIdle EXCEPT !.pc = "parse", !.pending = pending, !.i = 1,
                                   !.owed = cp.owed]
    /\ tr' = [tr EXCEPT ![k].pc = "sweep"]
    /\ UNCHANGED <<mailboxIds, storeVars, dg, cl, ap, failures, userActs,
                   mode, rev, fromSelf, corrections, mailboxes, sysVars>>

\* store.getProcessedEmail throws in the loop of scanForCorrections, which
\* has no try: the throw leaves processAllCorrections and is caught by
\* poll()'s catch, and poll() returns [].
PollScanThrows(k) ==
    /\ tr[k].pc = "called"
    /\ cp.pc = "idle"
    /\ scanForCorrections(mailboxIds, processed, mailboxes) # <<>>
    /\ failures < MaxFailures
    /\ failures' = failures + 1
    /\ tr' = [tr EXCEPT ![k].pc = "next"]
    /\ UNCHANGED <<mailboxIds, storeVars, dg, cl, ap, userActs,
                   mode, rev, fromSelf, corrVars, sysVars>>

\* The list of the sweep is exhausted: processAllCorrections returns and
\* poll() goes on with processNewEmails up to the item loop.
PollSweepEnds(k) ==
    /\ tr[k].pc = "sweep"
    /\ cp.pc = "parse"
    /\ cp.i > Len(cp.pending)
    /\ cp' = [CpIdle EXCEPT !.owed = cp.owed]
    /\ tr' = [tr EXCEPT ![k] = processNewEmails(mailboxIds, processed)]
    /\ UNCHANGED <<mailboxIds, storeVars, dg, cl, ap, failures, userActs,
                   mode, rev, fromSelf, corrections, mailboxes, sysVars>>

\* ------------------------------------------------- cron triage handler
\* api/cron/triage.ts processNewEmails up to the item loop: as the engine's,
\* but the filter only drops what already carries a classification mailbox.
cronProcessNewEmails(mb, pr) ==
    LET emailIds == {e \in Emails : inboxId \in mb[e]}
        unprocessedIds == {e \in emailIds : ~isEmailProcessed(pr, e)}
        emailsToProcess ==
            {e \in unprocessedIds : ~hasAnyClassificationMailbox(mb[e])}
    IN  IF emailsToProcess = {}
        THEN [TrIdle EXCEPT !.pc = "cron_next", !.passthrough = TRUE,
                            !.queue = NewestFirst(unprocessedIds),
                            !.batch = unprocessedIds,
                            !.dropped = unprocessedIds]
        ELSE [TrIdle EXCEPT !.pc = "cron_next",
                            !.queue = NewestFirst(emailsToProcess),
                            !.batch = emailsToProcess,
                            !.dropped = unprocessedIds \ emailsToProcess]

\* The ProcessedEmail object the handler builds has no digestId property:
\* the row is written with digest_id NULL (0 here).
CronRow(c, action) == [classification |-> c, actionTaken |-> action, digestId |-> 0]

\* The cron request arrives and finds unprocessed mail in the inbox.
CronPoll(k) ==
    /\ tr[k].pc = "idle"
    /\ scanForCorrections(mailboxIds, processed, mailboxes) = <<>>
    /\ cronProcessNewEmails(mailboxIds, processed).queue # <<>>
    /\ tr' = [tr EXCEPT ![k] = cronProcessNewEmails(mailboxIds, processed)]
    /\ UNCHANGED <<mailboxIds, storeVars, dg, cl, ap, failures, userActs, mode, rev, fromSelf, corrVars, sysVars>>

\* Passthrough loop: saveProcessedEmail of an "Already labeled" row.  The
\* database client either binds the missing digestId as NULL or refuses
\* the undefined argument, and the throw ends the handler.
CronPassthroughItem(k, saved) ==
    /\ tr[k].pc = "cron_next"
    /\ tr[k].queue # <<>>
    /\ tr[k].passthrough
    /\ processed' = IF saved
                    THEN [processed EXCEPT ![Head(tr[k].queue)] = CronRow("fyi", "labeled")]
                    ELSE processed
    /\ tr' = [tr EXCEPT ![k] = IF saved THEN [@ EXCEPT !.queue = Tail(@)] ELSE TrIdle]
    /\ UNCHANGED <<mailboxIds, digests, delivered, dg, cl, ap, failures, userActs, mode, rev, fromSelf, corrVars, sysVars>>

\* processEmail of the handler, whose awaits no other caller interleaves
\* with here: classify, applyClassificationLabel, archive a low-priority
\* message in triage mode, saveProcessedEmail (written, or refused and the
\* item ends in the loop's catch).
CronProcessEmail(k, c, failed, saved) ==
    /\ tr[k].pc = "cron_next"
    /\ tr[k].queue # <<>>
    /\ ~tr[k].passthrough
    /\ LET e == Head(tr[k].queue)
           labeled == addEmailToMailbox(
                          removeAllClassificationLabels(mailboxIds, e, failed),
                          e, labelMailboxIds[c])
           archives == mode = "triage" /\ c = "low-priority"
           action == IF mode = "triage"
                     THEN IF c = "low-priority" THEN "archived" ELSE "kept"
                     ELSE "labeled"
       IN  /\ mailboxIds' = IF archives THEN moveEmail(labeled, e, archiveId) ELSE labeled
           /\ processed' = IF saved THEN [processed EXCEPT ![e] = CronRow(c, action)]
                           ELSE processed
           /\ tr' = [tr EXCEPT ![k].queue = Tail(@), ![k].classification = c,
                               ![k].threw = IF saved THEN @ ELSE @ \cup {e}]
    /\ failures' = failures + Cardinality(failed)
    /\ UNCHANGED <<digests, delivered, dg, cl, ap, userActs, mode, rev, fromSelf, corrVars, sysVars>>

\* The item loop is exhausted: the handler answers 200.
CronReturn(k) ==
    /\ tr[k].pc = "cron_next"
    /\ tr[k].queue = <<>>
    /\ tr' = [tr EXCEPT ![k] = TrIdle]
    /\ UNCHANGED <<mailboxIds, storeVars, dg, cl, ap, failures, userActs, mode, rev, fromSelf, corrVars, sysVars>>

CronNext(k) ==
    \/ CronPoll(k)
    \/ \E saved \in BOOLEAN : CronPassthroughItem(k, saved)
    \/ \E c \in {"important", "low-priority"}, failed \in FailSets, saved \in BOOLEAN :
          CronProcessEmail(k, c, failed, saved)
    \/ CronReturn(k)

\* ------------------------------------------------ LabelManager.initialize
PARENT_LABEL == "Fastermail"
CORRECTION_LABEL == "Fastermail-Correction"

\* The LabelManager of the running process and the one of the process that
\* replaces it after a restart.
LabelMaps == {"first", "second"}

\* Mailbox.parentId of a top-level mailbox; also an id field not yet set.
NoMailbox == 0

\* A mailbox the account has whatever the program does.
BaseFolders == {[id |-> 1, name |-> "Inbox", parentId |-> NoMailbox],
                [id |-> 2, name |-> "Archive", parentId |-> NoMailbox]}

\* Names the user gives to mailboxes of their own.
UserFolderNames == {"fastermail", "Important"}

\* String.prototype.toLowerCase on the mailbox names that occur.
toLowerCase(n) ==
    CASE n = "Fastermail"            -> "fastermail"
      [] n = "Fastermail-Correction" -> "fastermail-correction"
      [] n = "Important"             -> "important"
      [] n = "Needs Reply"           -> "needs reply"
      [] n = "FYI"                   -> "fyi"
      [] n = "Low Priority"          -> "low priority"
      [] n = "Inbox"                 -> "inbox"
      [] n = "Archive"               -> "archive"
      [] OTHER                       -> n

\* findMailboxByName: the mailboxes whose name matches, whatever their
\* parent.  Array.find returns the first of them in the order of the
\* Mailbox/get list, which is the server's choice.
findMailboxByName(fs, name) ==
    {m \in fs : toLowerCase(m.name) = toLowerCase(name)}

\* initialize's lookup of a classification mailbox in the fetched list; a
\* server keeps the names of siblings distinct, so there is at most one.
findLabelMailbox(fs, labelName, parent) ==
    {m \in fs : m.name = labelName /\ m.parentId = parent}

\* initialize's lookup of the correction mailbox in the fetched list.
findCorrectionMailbox(fs) == {m \in fs : m.name = CORRECTION_LABEL}

\* Mailbox/set create is refused for a name a sibling already has.
nameTaken(fs, name, parent) ==
    \E m \in fs : m.parentId = parent /\ toLowerCase(m.name) = toLowerCase(name)

\* Mailbox/set create: the server assigns a fresh id.
createMailbox(fs, name, parent) ==
    fs \cup {[id |-> Cardinality(fs) + 1, name |-> name, parentId |-> parent]}

\* created and prior are history the properties read: the mailboxes this
\* call has created, and the classification mailbox ids an earlier
\* initialize() had yielded when this call began.
LmIdle == [pc |-> "idle", initialized |-> FALSE, parentMailboxId |-> NoMailbox,
           correctionMailboxId |-> NoMailbox,
           labelMailboxIds |-> [c \in Classification |-> NoMailbox],
           mailboxes |-> {}, i |-> 1, created |-> 0,
           prior |-> [c \in Classification |-> NoMailbox]]

\* The topology a finished initialize() has yielded, if there is one.
YieldedTopology ==
    IF \E j \in LabelMaps : lm[j].initialized
    THEN lm[CHOOSE j \in LabelMaps : lm[j].initialized].labelMailboxIds
    ELSE [c \in Classification |-> NoMailbox]

\* The synchronous part of the loop over CLASSIFICATION_LABELS: every
\* mailbox found in the fetched list is taken, up to the first one missing;
\* after the loop the correction mailbox is looked up in the same list.
RECURSIVE AdvanceInitialize(_)
AdvanceInitialize(l) ==
    IF l.i > Len(ClassificationOrder)
    THEN IF findCorrectionMailbox(l.mailboxes) = {}
         THEN [l EXCEPT !.pc = "create_correction"]
         ELSE [l EXCEPT !.pc = "idle", !.initialized = TRUE,
                        !.correctionMailboxId =
                            (CHOOSE m \in findCorrectionMailbox(l.mailboxes) : TRUE).id]
    ELSE LET c == ClassificationOrder[l.i]
             found == findLabelMailbox(l.mailboxes, CLASSIFICATION_LABELS[c],
                                       l.parentMailboxId)
         IN  IF found = {}
             THEN [l EXCEPT !.pc = "create_label"]
             ELSE AdvanceInitialize(
                      [l EXCEPT !.labelMailboxIds[c] = (CHOOSE m \in found : TRUE).id,
                                !.i = @ + 1])

\* initialize() on an instance that is not initialized, up to the answer
\* of findMailboxByName(PARENT_LABEL).  Calls are sequential.
LmCall(k) ==
    /\ \A j \in LabelMaps : lm[j].pc = "idle"
    /\ ~lm[k].initialized
    /\ LET l == [LmIdle EXCEPT !.prior = YieldedTopology]
       IN  \/ /\ findMailboxByName(folders, PARENT_LABEL) = {}
              /\ lm' = [lm EXCEPT ![k] = [l EXCEPT !.pc = "create_parent"]]
           \/ \E m \in findMailboxByName(folders, PARENT_LABEL) :
                 lm' = [lm EXCEPT ![k] = [l EXCEPT !.pc = "get",
                                                   !.parentMailboxId = m.id]]
    /\ UNCHANGED <<mailboxIds, storeVars, tr, dg, cl, ap, failures, userActs,
                   mode, rev, fromSelf, corrVars, folders, eng>>

\* createMailbox(PARENT_LABEL)
LmCreateParent(k) ==
    /\ lm[k].pc = "create_parent"
    /\ ~nameTaken(folders, PARENT_LABEL, NoMailbox)
    /\ folders' = createMailbox(folders, PARENT_LABEL, NoMailbox)
    /\ lm' = [lm EXCEPT ![k].pc = "get", ![k].created = @ + 1,
                        ![k].parentMailboxId = Cardinality(folders) + 1]
    /\ UNCHANGED <<mailboxIds, storeVars, tr, dg, cl, ap, failures, userActs,
                   mode, rev, fromSelf, corrVars, eng>>

\* getMailboxes(), then the loop up to the first mailbox to create.
LmGetMailboxes(k) ==
    /\ lm[k].pc = "get"
    /\ lm' = [lm EXCEPT ![k] = AdvanceInitialize([lm[k] EXCEPT !.mailboxes = folders])]
    /\ UNCHANGED <<mailboxIds, storeVars, tr, dg, cl, ap, failures, userActs,
                   mode, rev, fromSelf, corrVars, folders, eng>>

\* createMailbox(labelName, parentMailboxId), then on with the loop.
LmCreateLabel(k) ==
    /\ lm[k].pc = "create_label"
    /\ LET c == ClassificationOrder[lm[k].i]
       IN  /\ ~nameTaken(folders, CLASSIFICATION_LABELS[c], lm[k].parentMailboxId)
           /\ folders' = createMailbox(folders, CLASSIFICATION_LABELS[c],
                                       lm[k].parentMailboxId)
           /\ lm' = [lm EXCEPT ![k] = AdvanceInitialize(
                        [lm[k] EXCEPT !.labelMailboxIds[c] = Cardinality(folders) + 1,
                                      !.created = @ + 1, !.i = @ + 1])]
    /\ UNCHANGED <<mailboxIds, storeVars, tr, dg, cl, ap, failures, userActs,
                   mode, rev, fromSelf, corrVars, eng>>

\* createMailbox(CORRECTION_LABEL); initialized = true.
LmCreateCorrection(k) ==
    /\ lm[k].pc = "create_correction"
    /\ ~nameTaken(folders, CORRECTION_LABEL, NoMailbox)
    /\ folders' = createMailbox(folders, CORRECTION_LABEL, NoMailbox)
    /\ lm' = [lm EXCEPT ![k].pc = "idle", ![k].initialized = TRUE,
                        ![k].created = @ + 1,
                        ![k].correctionMailboxId = Cardinality(folders) + 1]
    /\ UNCHANGED <<mailboxIds, storeVars, tr, dg, cl, ap, failures, userActs,
                   mode, rev, fromSelf, corrVars, eng>>

\* The name createMailbox is about to ask for.
Creating(l) ==
    CASE l.pc = "create_parent"     -> <<PARENT_LABEL, NoMailbox>>
      [] l.pc = "create_label"      -> <<CLASSIFICATION_LABELS[ClassificationOrder[l.i]],
                                         l.parentMailboxId>>
      [] l.pc = "create_correction" -> <<CORRECTION_LABEL, NoMailbox>>
      [] OTHER                      -> <<"", NoMailbox>>

\* A Mailbox/get or Mailbox/set request of initialize() throws, by a
\* communication failure or because the server refuses the name: the call
\* rejects with the instance left uninitialized.
LmThrows(k) ==
    /\ lm[k].pc \in {"create_parent", "get", "create_label", "create_correction"}
    /\ \/ /\ failures < MaxFailures
          /\ failures' = failures + 1
       \/ /\ nameTaken(folders, Creating(lm[k])[1], Creating(lm[k])[2])
          /\ UNCHANGED failures
    /\ lm' = [lm EXCEPT ![k].pc = "idle"]
    /\ UNCHANGED <<mailboxIds, storeVars, tr, dg, cl, ap, userActs,
                   mode, rev, fromSelf, corrVars, folders, eng>>

\* The user makes a mailbox of their own inside an existing one; the server
\* refuses a name a sibling already has.
UserCreateMailbox(name, parent) ==
    /\ userActs < MaxUserActions
    /\ parent \in {m.id : m \in folders}
    /\ ~nameTaken(folders, name, parent)
    /\ folders' = createMailbox(folders, name, parent)
    /\ userActs' = userActs + 1
    /\ UNCHANGED <<mailboxIds, storeVars, tr, dg, cl, ap, failures,
                   mode, rev, fromSelf, corrVars, lm, eng>>

\* ------------------------------------------------------------------- user
\* The user labels a message with the inbox in their mail client.
UserMoveToInbox(e) ==
    /\ userActs < MaxUserActions
    /\ mailboxIds[e] # {}
    /\ inboxId \notin mailboxIds[e]
    /\ mailboxIds' = addEmailToMailbox(mailboxIds, e, inboxId)
    /\ userActs' = userActs + 1
    /\ UNCHANGED <<storeVars, tr, dg, cl, ap, failures, mode, rev, fromSelf, corrVars, sysVars>>

\* The user deletes a message.
UserDelete(e) ==
    /\ userActs < MaxUserActions
    /\ mailboxIds[e] # {}
    /\ mailboxIds' = [mailboxIds EXCEPT ![e] = {}]
    /\ userActs' = userActs + 1
    /\ UNCHANGED <<storeVars, tr, dg, cl, ap, failures, mode, rev, fromSelf, corrVars, sysVars>>

\* The user takes a message out of the inbox or the archive in their mail
\* client; the server keeps every message in at least one mailbox.
UserRemoveFromFolder(e, f) ==
    /\ userActs < MaxUserActions
    /\ f \in {inboxId, archiveId}
    /\ f \in mailboxIds[e]
    /\ mailboxIds[e] \ {f} # {}
    /\ mailboxIds' = removeEmailFromMailbox(mailboxIds, e, f)
    /\ userActs' = userActs + 1
    /\ UNCHANGED <<storeVars, tr, dg, cl, ap, failures, mode, rev, fromSelf, corrVars, sysVars>>

\* A mailbox of the user's own, beside the inbox and the archive.
userFolderId == "Receipts"

\* The user files a message in that mailbox as well.
UserFileInFolder(e) ==
    /\ userActs < MaxUserActions
    /\ mailboxIds[e] # {}
    /\ userFolderId \notin mailboxIds[e]
    /\ mailboxIds' = addEmailToMailbox(mailboxIds, e, userFolderId)
    /\ userActs' = userActs + 1
    /\ UNCHANGED <<storeVars, tr, dg, cl, ap, failures, mode, rev, fromSelf, corrVars, sysVars>>

\* --------------------------------------------------------- specifications
\* The account once initialize() has run on it, and the LabelManager that
\* ran it.
InitializedFolders ==
    BaseFolders
    \cup {[id |-> 3, name |-> PARENT_LABEL, parentId |-> NoMailbox]}
    \cup {[id |-> 3 + i, name |-> CLASSIFICATION_LABELS[ClassificationOrder[i]],
           parentId |-> 3] : i \in 1..Len(ClassificationOrder)}
    \cup {[id |-> 8, name |-> CORRECTION_LABEL, parentId |-> NoMailbox]}

InitializedLabelMap ==
    [LmIdle EXCEPT !.initialized = TRUE, !.parentMailboxId = 3,
                   !.correctionMailboxId = 8,
                   !.labelMailboxIds =
                       [c \in Classification |->
                           3 + CHOOSE i \in 1..Len(ClassificationOrder) :
                                   ClassificationOrder[i] = c],
                   !.i = Len(ClassificationOrder) + 1]

HandlersIdle ==
    /\ tr = [k \in PollCalls |-> TrIdle]
    /\ dg = [r \in DigestRuns |-> DgIdle]
    /\ cl = [q \in CleanupRequests |-> ClIdle]
    /\ ap = ApIdle
    /\ failures = 0
    /\ userActs = 0
    /\ corrections = <<>>
    /\ mailboxes = CorrectionChildren
    /\ cp = CpIdle
    /\ eng = EngIdle
    /\ fromSelf = {}

\* Every handler idle, on an account the LabelManager has initialized.
Idle ==
    /\ HandlersIdle
    /\ folders = InitializedFolders
    /\ lm = [k \in LabelMaps |-> IF k = "first" THEN InitializedLabelMap ELSE LmIdle]

\* State after construction: the messages in `live` are new mail in the
\* inbox, the Store is empty, every handler is idle.
Constructed(live) ==
    /\ mailboxIds = [e \in Emails |-> IF e \in live THEN {inboxId} ELSE {}]
    /\ digests = <<>>
    /\ processed = [e \in Emails |-> NoRecord]
    /\ delivered = [i \in 1..MaxDigests |-> 0]
    /\ Idle

\* The poll cycle with a classifier that answers within C.
\* The item loop of processNewEmails.
TriageItems(K, C) ==
    \/ \E k \in K : TriagePassthroughItem(k)
    \/ \E k \in K, c \in C, failed \in FailSets : TriageClassify(k, c, failed)
    \/ \E k \in K : TriageApplyAdd(k)
    \/ \E k \in K : TriageRemoveInbox(k)
    \/ \E k \in K : TriageArchive(k)
    \/ \E k \in K : TriageMarkGet(k)
    \/ \E k \in K : TriageMarkCreate(k)
    \/ \E k \in K : TriageMarkSave(k)
    \/ \E k \in K : TriageItemThrows(k)

TriageCalls(K, C) ==
    \/ \E k \in K : TriagePoll(k)
    \/ \E k \in K : TriageCycleEnd(k)
    \/ TriageItems(K, C)

\* The engine started and stopped by its owner.
EngineNext ==
    \/ \E k \in PollCalls : EngineStart(k)
    \/ EngineStop
    \/ \E t \in TimerIds, k \in PollCalls : EngineTimer(t, k)
    \/ \E k \in PollCalls : EnginePoll(k)
    \/ \E k \in PollCalls : EnginePollThrows(k)
    \/ \E k \in PollCalls : EngineCycleEnd(k)
    \/ TriageItems(PollCalls, {"low-priority"})

\* One engine polling on its timer: the cycles follow one another.
TriageNextOf(C) == TriageCalls({"first"}, C)

TriageNext == TriageNextOf(Classification)

DigestNext(R) ==
    \/ \E r \in R : DigestTrigger(r)
    \/ \E r \in R : DigestGenCreate(r)
    \/ \E r \in R : DigestGenRead(r)
    \/ \E r \in R : DigestSend(r)
    \/ \E r \in R : DigestMarkSent(r)
    \/ \E r \in R : DigestCreatePending(r)
    \/ \E r \in R : DigestReturn(r)
    \/ \E r \in R : DigestThrows(r)

CleanupNext(Q) ==
    \/ \E q \in Q, t \in Tokens : CleanupCall(q, t)
    \/ \E q \in Q : CleanupGetEmails(q)
    \/ \E q \in Q : CleanupFetch(q)
    \/ \E q \in Q : CleanupGuardAdd(q)
    \/ \E q \in Q, failed \in FailSets : CleanupStrip(q, failed)
    \/ \E q \in Q : CleanupArchive(q)
    \/ \E q \in Q : CleanupItemThrows(q)
    \/ \E q \in Q : CleanupMark(q)

UserNext ==
    \/ \E e \in Emails : UserMoveToInbox(e)
    \/ \E e \in Emails : UserDelete(e)

CorrectionNext ==
    \/ CorrScan
    \/ CorrSweepEnd
    \/ CorrSave
    \/ \E failed \in FailSets : CorrApplyRemove(failed)
    \/ CorrApplyAdd
    \/ CorrUpdate
    \/ CorrCleanupGet
    \/ \E f \in CorrectionChildren \cup {correctionMailboxId} : CorrCleanupRemove(f)
    \/ CorrCleanupDelete
    \/ CorrItemThrows

\* LabelManager.initialize on a new account, by the process and by the one
\* that replaces it, while the user makes mailboxes of their own.
LabelInitNext ==
    \/ \E k \in LabelMaps : LmCall(k)
    \/ \E k \in LabelMaps : LmCreateParent(k)
    \/ \E k \in LabelMaps : LmGetMailboxes(k)
    \/ \E k \in LabelMaps : LmCreateLabel(k)
    \/ \E k \in LabelMaps : LmCreateCorrection(k)
    \/ \E k \in LabelMaps : LmThrows(k)
    \/ \E name \in UserFolderNames, m \in folders : UserCreateMailbox(name, m.id)

InitLabelInit ==
    /\ mailboxIds = [e \in Emails |-> {inboxId}]
    /\ digests = <<>>
    /\ processed = [e \in Emails |-> NoRecord]
    /\ delivered = [i \in 1..MaxDigests |-> 0]
    /\ HandlersIdle
    /\ folders = BaseFolders
    /\ lm = [k \in LabelMaps |-> LmIdle]
    /\ mode = "label-only"
    /\ rev = "archive"

SpecLabelInit == InitLabelInit /\ [][LabelInitNext]_vars

\* The engine of a process, new mail in the inbox that the classifier calls
\* low-priority, no correction waiting.
InitEngine ==
    /\ Constructed(Emails)
    /\ mode \in {"triage", "label-only"}
    /\ rev = "archive"

SpecEngine == InitEngine /\ [][EngineNext]_vars

LabelNext ==
    \/ \E e \in Emails, c \in Classification : ApplyCall(e, c)
    \/ \E failed \in FailSets : ApplyRemoveAll(failed)
    \/ ApplyAdd
    \/ ApplyAddThrows

\* LabelManager alone: a caller applies classification labels to messages
\* that are in the inbox or the archive and in any classification mailboxes.
InitLabel ==
    /\ mailboxIds \in [Emails -> {M \in SUBSET Folders :
                                    M \ getClassificationMailboxIds # {}}]
    /\ digests = <<>>
    /\ processed = [e \in Emails |-> NoRecord]
    /\ delivered = [i \in 1..MaxDigests |-> 0]
    /\ Idle
    /\ mode = "label-only"
    /\ rev = "archive"

SpecLabel == InitLabel /\ [][LabelNext]_vars

\* The same with fewer messages.
InitStrip ==
    /\ mailboxIds \in [Emails -> SUBSET Folders]
    /\ \A e \in Emails :
          IF e \in 1..LifecycleEmails
          THEN mailboxIds[e] \ getClassificationMailboxIds # {}
          ELSE mailboxIds[e] = {}
    /\ digests = <<>>
    /\ processed = [e \in Emails |-> NoRecord]
    /\ delivered = [i \in 1..MaxDigests |-> 0]
    /\ Idle
    /\ mode = "label-only"
    /\ rev = "archive"

SpecStrip == InitStrip /\ [][LabelNext]_vars

\* Triage cycles and the two digest triggers, interleaved at their awaits.
InitRotation ==
    /\ Constructed(Emails)
    /\ mode \in {"triage", "label-only"}
    /\ rev = "archive"

SpecRotation == InitRotation /\ [][TriageNext \/ DigestNext(DigestRuns)]_vars

\* The same with fewer messages and a classifier that answers important
\* (not surfaced in a digest) or low-priority (surfaced).
InitPending ==
    /\ Constructed(1..LifecycleEmails)
    /\ mode \in {"triage", "label-only"}
    /\ rev = "archive"

SpecPending ==
    InitPending /\
    [][TriageNextOf({"important", "low-priority"}) \/ DigestNext(DigestRuns)]_vars

\* Poll cycles, the scheduler's digest run and a user who moves messages
\* back to the inbox; the classifier answers low-priority (surfaced in the
\* digest, and archived in triage mode).
SpecLedger ==
    InitRotation /\
    [][\/ TriageNextOf({"low-priority"})
       \/ DigestNext({"scheduler"})
       \/ \E e \in Emails : UserMoveToInbox(e)]_vars

\* Poll cycles of one engine over an inbox of new mail, some of it already
\* carrying a classification mailbox, while the user may delete a message.
InitCycle ==
    /\ mailboxIds \in [Emails -> {{inboxId}, {inboxId, labelMailboxIds["fyi"]}}]
    /\ digests = <<>>
    /\ processed = [e \in Emails |-> NoRecord]
    /\ delivered = [i \in 1..MaxDigests |-> 0]
    /\ Idle
    /\ mode \in {"triage", "label-only"}
    /\ rev = "archive"

SpecCycle ==
    InitCycle /\
    [][\/ TriageNextOf({"important", "low-priority"})
       \/ \E e \in Emails : UserDelete(e)]_vars

\* The two entry points of triage, the engine's poll cycle and the cron
\* handler, over an inbox that also holds mail the account sent itself.
InitEntry ==
    /\ mailboxIds \in [Emails -> {{inboxId}, {inboxId, labelMailboxIds["fyi"]}}]
    /\ digests = <<>>
    /\ processed = [e \in Emails |-> NoRecord]
    /\ delivered = [i \in 1..MaxDigests |-> 0]
    /\ tr = [k \in PollCalls |-> TrIdle]
    /\ dg = [r \in DigestRuns |-> DgIdle]
    /\ cl = [q \in CleanupRequests |-> ClIdle]
    /\ ap = ApIdle
    /\ failures = 0
    /\ userActs = 0
    /\ corrections = <<>>
    /\ mailboxes = CorrectionChildren
    /\ cp = CpIdle
    /\ eng = EngIdle
    /\ folders = InitializedFolders
    /\ lm = [k \in LabelMaps |-> IF k = "first" THEN InitializedLabelMap ELSE LmIdle]
    /\ fromSelf \in SUBSET Emails
    /\ mode \in {"triage", "label-only"}
    /\ rev = "archive"

SpecEntry ==
    InitEntry /\
    [][TriageNextOf({"important", "low-priority"}) \/ CronNext("second")]_vars

\* The same engine with every remote and Store call answering in the end:
\* a step of the cycle that can be taken is taken.
SpecCycleLive ==
    /\ InitCycle
    /\ [][TriageNextOf({"important", "low-priority"})]_vars
    /\ WF_vars(TriageNextOf({"important", "low-priority"}))

\* Triage, the scheduler's digest run and the cleanup endpoint.
InitLifecycle ==
    /\ Constructed(1..LifecycleEmails)
    /\ mode \in {"triage", "label-only"}
    /\ rev \in CleanupRevisions

SpecLifecycle ==
    InitLifecycle /\ [][TriageNext \/ DigestNext({"scheduler"}) \/ CleanupNext({"first"})]_vars

\* The cleanup endpoint after the first digest was sent and rotated: every
\* message is new mail, or was labelled for the pending digest 2, or has a
\* ledger row of the sent digest 1 and sits where triage or the user has
\* put it since (a message whose row the digest did not surface is taken
\* in its classification mailbox).
SentDigests == <<[status |-> "sent", cleanupToken |-> 101],
                 [status |-> "pending", cleanupToken |-> 102]>>

LedgerRows == {[classification |-> c, actionTaken |-> "labeled", digestId |-> 1] :
                  c \in {"important", "fyi"}}
              \cup {[classification |-> "fyi", actionTaken |-> "labeled", digestId |-> 2]}

FiledAs(r) == {{}, {inboxId}, {archiveId},
               {labelMailboxIds[r.classification]},
               {labelMailboxIds[r.classification], inboxId}}

InitCleanup ==
    /\ processed \in [Emails -> LedgerRows \cup {NoRecord}]
    /\ digestEmails(processed, 1) # {}
    /\ mailboxIds \in [Emails -> SUBSET Folders]
    /\ \A e \in Emails :
          mailboxIds[e] \in
              (IF processed[e] = NoRecord THEN {{inboxId}}
               ELSE IF processed[e].digestId = 1
                    THEN IF DigestEligible(processed[e]) THEN FiledAs(processed[e])
                         ELSE {{labelMailboxIds[processed[e].classification]}}
               ELSE {{labelMailboxIds[processed[e].classification], inboxId}})
    /\ digests = SentDigests
    /\ delivered = [i \in 1..MaxDigests |-> IF i = 1 THEN 1 ELSE 0]
    /\ Idle
    /\ mode = "label-only"
    /\ rev \in CleanupRevisions

SpecCleanup == InitCleanup /\ [][CleanupNext({"first"}) \/ UserNext]_vars

\* The same with a user who also takes messages out of folders.
SpecCleanupEdit ==
    InitCleanup /\
    [][\/ CleanupNext({"first"})
       \/ UserNext
       \/ \E e \in Emails, f \in Folders : UserRemoveFromFolder(e, f)]_vars

\* The cleanup endpoint for a user who has filed messages in a mailbox of
\* their own before following the cleanup link.
SpecCleanupFiled ==
    InitCleanup /\
    [][\/ CleanupNext({"first"})
       \/ \E e \in Emails :
             /\ \A q \in CleanupRequests : cl[q].pc \in {"idle", "returned"}
             /\ UserFileInFolder(e)]_vars

\* Two requests to the cleanup endpoint served at the same time.
SpecCleanupRace == InitCleanup /\ [][CleanupNext(CleanupRequests)]_vars

\* The correction sweep alone.  A message is new mail or was labelled for the
\* pending digest; the user has left it there, or has also put it in the
\* correction folder and/or one of its children, or has moved it into a
\* child (which takes it out of every other folder).
PendingDigest == <<[status |-> "pending", cleanupToken |-> 101]>>

CorrectionPlacings ==
    {{}, {correctionMailboxId}} \cup
    {{m} : m \in CorrectionChildren} \cup
    {{correctionMailboxId, "this is important"}}

InitCorrection ==
    /\ processed \in [Emails -> {NoRecord,
                          [classification |-> "fyi", actionTaken |-> "labeled",
                           digestId |-> 1]}]
    /\ mailboxIds \in [Emails -> {{inboxId} \cup P : P \in CorrectionPlacings}
                              \cup {{labelMailboxIds["fyi"]} \cup P :
                                         P \in CorrectionPlacings}
                              \cup {{"just noise"}}]
    /\ \A e \in Emails :
          LET home == IF processed[e] = NoRecord THEN inboxId
                      ELSE labelMailboxIds[processed[e].classification]
          IN  home \in mailboxIds[e] \/ mailboxIds[e] = {"just noise"}
    /\ \E e \in Emails : mailboxIds[e] \cap CorrectionChildren # {}
    /\ digests = PendingDigest
    /\ delivered = [i \in 1..MaxDigests |-> 0]
    /\ Idle
    /\ mode = "label-only"
    /\ rev = "archive"

SpecCorrection == InitCorrection /\ [][CorrectionNext]_vars

\* The engine polling on its timer while corrections wait in the
\* correction folders: every cycle sweeps them, then takes the new mail.
PollNext ==
    \/ EngineStart("first")
    \/ \E t \in TimerIds : EngineTimer(t, "first")
    \/ EnginePoll("first")
    \/ PollSweepBegins("first")
    \/ PollScanThrows("first")
    \/ PollSweepEnds("first")
    \/ CorrSave
    \/ \E failed \in FailSets : CorrApplyRemove(failed)
    \/ CorrApplyAdd
    \/ CorrUpdate
    \/ CorrCleanupGet
    \/ \E f \in CorrectionChildren \cup {correctionMailboxId} : CorrCleanupRemove(f)
    \/ CorrCleanupDelete
    \/ CorrItemThrows
    \/ TriageItems({"first"}, {"low-priority"})
    \/ EngineCycleEnd("first")

\* Messages the user has filed in a child of the correction folder after
\* they were labeled, new mail in the inbox; the digest the rows are
\* attached to is pending, or sent with no pending digest made yet.
InitPoll ==
    /\ processed \in [Emails -> {NoRecord,
                          [classification |-> "fyi", actionTaken |-> "labeled",
                           digestId |-> 1]}]
    /\ mailboxIds \in [Emails -> {{inboxId}} \cup
                                 {{labelMailboxIds["fyi"], m} : m \in CorrectionChildren}]
    /\ \A e \in Emails : processed[e] = NoRecord <=> mailboxIds[e] = {inboxId}
    /\ \E e \in Emails : mailboxIds[e] \cap CorrectionChildren # {}
    /\ digests \in {PendingDigest, <<[status |-> "sent", cleanupToken |-> 101]>>}
    /\ delivered = [i \in 1..MaxDigests |-> 0]
    /\ Idle
    /\ mode \in {"triage", "label-only"}
    /\ rev = "archive"

SpecPoll == InitPoll /\ [][PollNext]_vars

\* An inbox of n messages, all new mail or the newest p of them already
\* in the ledger, and every second one with them; sizes around batchSize
\* and around QueryLimit.
InitBatch ==
    /\ \E n \in (0..(batchSize + 2)) \cup ((QueryLimit - 1)..MaxInbox),
          p \in {0, 1, QueryLimit - batchSize - 1, QueryLimit},
          alt \in BOOLEAN :
          /\ mailboxIds = [e \in 1..n |-> {inboxId}]
          /\ processed = [e \in 1..n |->
                             IF e > n - p \/ (alt /\ e % 2 = 0)
                             THEN [classification |-> "fyi", actionTaken |-> "labeled",
                                   digestId |-> 1]
                             ELSE NoRecord]
    /\ digests = PendingDigest
    /\ delivered = [i \in 1..MaxDigests |-> 0]
    /\ Idle
    /\ mode = "label-only"
    /\ rev = "archive"

\* One poll of the engine on such an inbox, up to the item loop.
SpecBatch == InitBatch /\ [][TriagePoll("first")]_vars

\* ------------------------------------------------------------- properties
ClassificationFolders(e) == mailboxIds[e] \cap getClassificationMailboxIds

\* C1: once applyClassificationLabel(id, C) has completed, the message's
\* classification-folder membership is exactly {folder of C}, also when a
\* per-folder removal failed and was swallowed.
C1_ExactlyOneLabelAfterApply ==
    ap.pc = "done" =>
        ClassificationFolders(ap.emailId) = {labelMailboxIds[ap.classification]}

\* C2: a message that cleanup fetched in classification folders only (and
\* not in any other folder) is never in no folder afterwards, changes made
\* by the user aside.
C2_OrphanSafety ==
    userActs = 0 =>
        \A q \in CleanupRequests : \A e \in cl[q].orphans : mailboxIds[e] # {}

\* C2, guard revision only: there the orphan is added to the archive first.
C2_OrphanSafetyOfGuardRevision ==
    (rev = "guard" /\ userActs = 0) =>
        \A q \in CleanupRequests : \A e \in cl[q].orphans : mailboxIds[e] # {}

\* C3: a cleanup(token) that follows a successful cleanup(token) returns
\* success, alreadyCleaned and zero counts.
C3_SecondCleanupAlreadyCleaned ==
    \A q \in CleanupRequests :
        (cl[q].pc = "returned" /\ cl[q].repeat) =>
            cl[q].result = [NoResult EXCEPT !.success = TRUE, !.alreadyCleaned = TRUE]

PendingCount == Cardinality(PendingRows(digests))

\* C4: when sendDigest completes, exactly one digest is pending, it is not
\* the digest just sent, and the digest just sent has status sent.
C4_RotationAfterSend ==
    [][\A r \in DigestRuns :
          (dg[r].pc = "create_pending" /\ dg'[r].pc = "sent") =>
              /\ Cardinality(PendingRows(digests')) = 1
              /\ dg'[r].id \notin PendingRows(digests')
              /\ digests'[dg'[r].id].status = "sent"]_vars

\* C5: there is never more than one digest with status pending.
C5_AtMostOnePending == PendingCount <= 1

\* C6: a digest's status changes only pending -> sent and sent -> cleaned.
C6_StatusTransitions ==
    [][\A i \in DigestIds :
          digests'[i].status # digests[i].status =>
              \/ digests[i].status = "pending" /\ digests'[i].status = "sent"
              \/ digests[i].status = "sent" /\ digests'[i].status = "cleaned"]_vars

\* C7: the mail of a digest is delivered at most once.
C7_DeliveredAtMostOnce == \A i \in 1..MaxDigests : delivered[i] <= 1

\* A ledger row hangs on pending digest d while a newer pending digest, the
\* one getPendingDigest returns, is empty, no handler is running and no
\* unprocessed mail is left: no later generate() reads digest d.
Stranded(e) ==
    /\ processed[e] # NoRecord
    /\ processed[e].digestId \in PendingRows(digests)
    /\ processed[e].digestId # SelectPending(digests)
    /\ getEmailsByDigestId(processed, SelectPending(digests)) = {}
    /\ tr = [k \in PollCalls |-> TrIdle]
    /\ \A r \in DigestRuns : dg[r] = DgIdle
    /\ \A x \in Emails : inboxId \in mailboxIds[x] => isEmailProcessed(processed, x)

\* C8: no ledger row is left attached to a pending digest that
\* getPendingDigest never returns again.
C8_NoStrandedRecord == \A e \in Emails : ~Stranded(e)

\* C9: a cleanup pass in which no item ended in the catch reports
\* kept = messages seen in the inbox, archived = messages seen elsewhere,
\* deleted = messages not resolvable, together the number of ledger rows of
\* the digest, and the digest is cleaned when the pass returns.
FullPass(q) ==
    cl[q].pc = "returned" /\ cl[q].result.success /\ ~cl[q].result.alreadyCleaned

NoDigestCarries(token) == \A i \in DigestIds : digests[i].cleanupToken # token

C10_InvalidTokenNoMutation ==
    [][\A q \in CleanupRequests :
          (cl'[q] # cl[q] /\ cl'[q].pc = "returned" /\ NoDigestCarries(cl'[q].token)) =>
              /\ cl'[q].result = [NoResult EXCEPT !.error = "Invalid or expired token"]
              /\ UNCHANGED <<digests, processed, mailboxIds, sysVars>>]_vars

C10_Witness ==
    /\ cl["first"].pc = "returned"
    /\ NoDigestCarries(cl["first"].token)
    /\ cl["first"].result.error = "Invalid or expired token"

\* C11: in a cleanup pass every message during whose processing a remote
\* call failed is counted deleted (and only those and the unresolvable
\* ones), every row of the digest is counted, and the digest is cleaned
\* when the pass returns.
C11_FailedItemCountedDeleted ==
    \A q \in CleanupRequests :
        FullPass(q) =>
            /\ cl[q].result.deleted = cl[q].seenGone + Cardinality(cl[q].threw)
            /\ cl[q].result.archived + cl[q].result.kept + cl[q].result.deleted
                   = cl[q].total
            /\ digests[cl[q].id].status = "cleaned"

\* C11 for the failures that reach the loop's catch (getEmails, the archive
\* add, archiveEmail): these are counted deleted and the pass goes on.
C11_CaughtItemCountedDeleted ==
    \A q \in CleanupRequests :
        FullPass(q) =>
            /\ cl[q].result.deleted = cl[q].seenGone + cl[q].caught
            /\ cl[q].result.archived + cl[q].result.kept + cl[q].result.deleted
                   = cl[q].total
            /\ digests[cl[q].id].status = "cleaned"

\* A completed pass that called removeAllClassificationLabels on some
\* message and reported a non-zero count.
StrippedAndCounted(q) ==
    /\ FullPass(q)
    /\ cl[q].seenIn + cl[q].seenOut > 0
    /\ cl[q].result.archived + cl[q].result.kept + cl[q].result.deleted > 0

\* C12: two invocations of cleanup for the same token never both strip
\* labels and report non-zero counts.
C12_OnePassPerToken ==
    \A p, q \in CleanupRequests :
        (p # q /\ cl[p].token = cl[q].token) =>
            ~(StrippedAndCounted(p) /\ StrippedAndCounted(q))

\* The SELECT of a getPendingDigest call: with a pending row the call
\* returns a pending digest and the table is unchanged; with none it goes
\* on to the INSERT.
ReturnsExisting(called, found, created, id) ==
    called =>
        /\ digests' = digests
        /\ IF PendingRows(digests) # {}
           THEN found /\ id \in PendingRows(digests)
           ELSE created

\* The INSERT of a getPendingDigest call: exactly one row is appended, it is
\* pending, carries a cleanup token, and is the digest returned.
CreatesOne(inserted, id) ==
    inserted =>
        /\ Len(digests') = Len(digests) + 1
        /\ \A i \in DigestIds : digests'[i] = digests[i]
        /\ digests'[Len(digests')].status = "pending"
        /\ digests'[Len(digests')].cleanupToken \in Nat \ {0}
        /\ id = Len(digests')

\* C13: getPendingDigest() called with no pending digest creates exactly one
\* row, pending and with a cleanup token, and returns it; called with a
\* pending digest it returns that digest and creates no row.  (Both callers:
\* markAsProcessed and generateDigest.)
C13_GetPendingDigest ==
    [][/\ \A k \in PollCalls :
             /\ ReturnsExisting(tr[k].pc = "mark_get" /\ tr'[k].pc # "mark_get"
                                    /\ tr'[k].queue = tr[k].queue,
                                tr'[k].pc = "mark_save", tr'[k].pc = "mark_create",
                                tr'[k].digestId)
             /\ CreatesOne(tr[k].pc = "mark_create" /\ tr'[k].pc = "mark_save",
                           tr'[k].digestId)
       /\ \A r \in DigestRuns :
             /\ ReturnsExisting(dg[r].pc = "idle" /\ dg'[r].pc # "idle",
                                dg'[r].pc = "gen_read", dg'[r].pc = "gen_create",
                                dg'[r].id)
             /\ CreatesOne(dg[r].pc = "gen_create" /\ dg'[r].pc = "gen_read",
                           dg'[r].id)]_vars

\* After digest 1 was sent, a generateDigest call has got digest 2 from
\* getPendingDigest.
C13_Witness ==
    /\ Len(digests) = 2
    /\ digests[1].status = "sent"
    /\ digests[2].status = "pending"
    /\ \E r \in DigestRuns : dg[r].pc = "gen_read" /\ dg[r].id = 2

\* The step that ends a poll cycle.
CycleEnds(k) == tr[k].pc = "next" /\ tr[k].queue = <<>> /\ tr'[k] = TrIdle

\* C14: a poll cycle over n unprocessed, unlabeled messages in which no
\* item fails and during which no digest is sent leaves one ledger row per
\* message, all with the id of the same digest.  (Stated for the runs with
\* no failure and no digest mail at all.)
C14_OneDigestPerCycle ==
    [][\A k \in PollCalls :
        (/\ CycleEnds(k)
         /\ ~tr[k].passthrough
         /\ failures = 0
         /\ \A i \in 1..MaxDigests : delivered[i] = 0) =>
          /\ \A e \in tr[k].batch : processed[e] # NoRecord
          /\ \A e, f \in tr[k].batch : processed[e].digestId = processed[f].digestId
          /\ \A e \in tr[k].batch : processed[e].digestId \in DigestIds]_vars

\* C15: when a poll cycle records classification C for a message it has
\* processed without failure, the message is in exactly one classification
\* folder, the one of C, in both modes and for every C.
C15_RecordedLabelIsTheFolder ==
    [][\A k \in PollCalls :
        (tr[k].pc = "mark_save" /\ tr'[k].pc = "next" /\ ~tr[k].passthrough
           /\ failures = 0 /\ processed' # processed) =>
          ClassificationFolders(Head(tr[k].queue)) = {labelMailboxIds[tr[k].classification]}]_vars

\* C16: a message with a ledger row is never taken up by a poll cycle again
\* and the digest id of its row never changes.
C16_ProcessedOnce ==
    [][/\ \A e \in Emails :
             processed[e] # NoRecord =>
                 /\ processed'[e] # NoRecord
                 /\ processed'[e].digestId = processed[e].digestId
       /\ \A k \in PollCalls :
             /\ (tr[k].pc = "idle" /\ tr'[k].pc # "idle") =>
                   \A e \in tr'[k].batch : processed[e] = NoRecord
             /\ (tr[k].pc = "next" /\ tr'[k].pc = "apply_add") =>
                   processed[Head(tr[k].queue)] = NoRecord]_vars

\* A cycle is under way that left out a message which is in the inbox and
\* has a ledger row, after a digest rotation.
C16_Witness ==
    \E k \in PollCalls :
    /\ tr[k].pc = "apply_add"
    /\ \E e \in Emails \ tr[k].batch :
          /\ processed[e] # NoRecord
          /\ inboxId \in mailboxIds[e]
          /\ processed[e].digestId # SelectPending(digests)
          /\ digests[processed[e].digestId].status = "sent"

\* ------------------------------------------------ correction properties
CorrectionFolders == CorrectionChildren \cup {correctionMailboxId}

RowsOf(e) == {k \in 1..Len(corrections) : corrections[k].emailId = e}

\* The step that ends a correction sweep.
SweepEnds == cp.pc = "parse" /\ cp.i > Len(cp.pending) /\ cp'.pc = "idle"

\* What the round trip promises for the entry p of a sweep.
RoundTrip(p) ==
    LET e == p.emailId
        C == parseCorrection(p.correctionText)
    IN  /\ processed[e] # NoRecord
        /\ processed[e].classification = C
        /\ Cardinality(RowsOf(e)) = 1
        /\ \A k \in RowsOf(e) : corrections[k].correctedClassification = C
        /\ mailboxIds[e] \cap CorrectionFolders = {}

C18_FailedCorrectionIsRescanned ==
    \A e \in cp.owed :
        /\ mailboxIds[e] \cap mailboxes # {}
        /\ LET pending == scanForCorrections(mailboxIds, processed, mailboxes)
           IN  \E k \in 1..Len(pending) : pending[k].emailId = e

\* The second processing of such a message is under way.
C18_Witness ==
    /\ cp.pc = "apply_remove"
    /\ Cardinality(RowsOf(Current.emailId)) = 2

\* C19: when a pending correction has been processed twice, the two
\* Correction rows have the same originalClassification and the same
\* correctedClassification, and the ledger classification and the
\* classification folder are those of the corrected classification.
C19_ReprocessingIsIdempotent ==
    \A e \in Emails :
        \A i, j \in RowsOf(e) :
            /\ corrections[i].originalClassification
                  = corrections[j].originalClassification
            /\ corrections[i].correctedClassification
                  = corrections[j].correctedClassification
            /\ (i # j /\ cp.pc = "idle" /\ processed[e] # NoRecord) =>
                  processed[e].classification = corrections[i].correctedClassification

\* C20: removeAllClassificationLabels returns normally whatever removals
\* fail, and a failed removal does not keep the others from being made: the
\* message is left in at most as many classification folders as removals
\* threw, and its other folders are untouched.
C20_RemoveAllSwallowsFailures ==
    [][(ap.pc = "remove" /\ ap' # ap) =>
          LET e == ap.emailId
          IN  /\ ap'.pc = "add"
              /\ Cardinality(mailboxIds'[e] \cap getClassificationMailboxIds)
                    <= failures' - failures
              /\ mailboxIds'[e] \cap getClassificationMailboxIds \subseteq mailboxIds[e]
              /\ mailboxIds'[e] \ getClassificationMailboxIds
                    = mailboxIds[e] \ getClassificationMailboxIds]_vars

\* The call has returned although a removal threw.
C20_Witness ==
    /\ ap.pc = "add"
    /\ failures > 0
    /\ ClassificationFolders(ap.emailId) # {}

\* C21: initialize() called when an earlier initialize() has yielded the
\* parent, the four classification mailboxes and the correction mailbox
\* creates no mailbox and yields the same mailbox id per classification, and
\* there is exactly one mailbox per classification under the parent.
Reinitialized(k) ==
    /\ lm[k].pc = "idle"
    /\ lm[k].initialized
    /\ \A c \in Classification : lm[k].prior[c] # NoMailbox

C21_InitializeIsIdempotent ==
    \A k \in LabelMaps :
        Reinitialized(k) =>
            /\ lm[k].created = 0
            /\ lm[k].labelMailboxIds = lm[k].prior
            /\ \A c \in Classification :
                   Cardinality(findLabelMailbox(folders, CLASSIFICATION_LABELS[c],
                                                lm[k].parentMailboxId)) = 1

\* The same, while no mailbox of the account but the parent is named like it.
C21_InitializeIsIdempotentOfUniqueName ==
    Cardinality(findMailboxByName(folders, PARENT_LABEL)) <= 1
        => C21_InitializeIsIdempotent

C21_Witness ==
    \E k \in LabelMaps : Reinitialized(k) /\ lm[k].created = 0

\* C22: stop() leaves a poll cycle in flight as it is, and once the cycles
\* that were in flight at stop() have returned no poll cycle begins until
\* start() is called again.
C22_StopEndsPolling ==
    [][/\ (eng.running /\ ~eng'.running) => tr' = tr
       /\ \A k \in PollCalls :
             (tr[k].pc = "idle" /\ tr'[k].pc = "called") =>
                 ~(eng'.stopped /\ eng'.awaited = {})]_vars

\* The same for an engine whose start() was never called with a cycle in
\* flight.
C22_StopEndsPollingOfOneChain ==
    [][~eng'.overlapped =>
          \A k \in PollCalls :
             (tr[k].pc = "idle" /\ tr'[k].pc = "called") =>
                 ~(eng'.stopped /\ eng'.awaited = {})]_vars

\* ------------------------------------------------- poll cycle properties
\* The place of message e in the order the cycle works through its batch.
Place(k, e) ==
    CHOOSE i \in 1..Len(NewestFirst(tr[k].batch)) : NewestFirst(tr[k].batch)[i] = e

\* What is left of the batch is its tail in that order.
InBatchOrder(k) ==
    \E n \in 0..Len(NewestFirst(tr[k].batch)) :
        tr[k].queue = SubSeq(NewestFirst(tr[k].batch), n + 1,
                             Len(NewestFirst(tr[k].batch)))

C24_FailedItemIsRetried ==
    \A e \in Emails :
        ((\E k \in PollCalls : e \in tr[k].threw) /\ processed[e] = NoRecord)
            ~> (processed[e] # NoRecord)

\* The same for the messages that threw before the label was added.
C24_FailedBeforeLabelIsRetried ==
    \A e \in Emails :
        (/\ \E k \in PollCalls : e \in tr[k].threw
         /\ processed[e] = NoRecord
         /\ inboxId \in mailboxIds[e]
         /\ ~hasAnyClassificationMailbox(mailboxIds[e]))
            ~> (processed[e] # NoRecord)

\* The passthrough row of markAsProcessed(email, "fyi", 1, "Already labeled",
\* "labeled").
IsPassthroughRow(r) ==
    r.classification = "fyi" /\ r.actionTaken = "labeled" /\ r.digestId \in DigestIds

\* C25: at the end of a poll cycle without failure, every message the cycle
\* fetched and dropped for carrying a classification mailbox has a
\* passthrough ledger row, whether or not the cycle classified other
\* messages.
C25_DroppedGetPassthroughRow ==
    [][\A k \in PollCalls :
          (CycleEnds(k) /\ failures = 0 /\ userActs = 0) =>
              \A e \in tr[k].dropped : IsPassthroughRow(processed[e])]_vars

\* The same for the cycles in which the filter dropped every fetched message.
C25_DroppedGetPassthroughRowIfNoneLeft ==
    [][\A k \in PollCalls :
          (CycleEnds(k) /\ failures = 0 /\ userActs = 0 /\ tr[k].passthrough) =>
              \A e \in tr[k].dropped : IsPassthroughRow(processed[e])]_vars

\* C26: in label-only mode a step of the poll cycle changes no membership
\* of a message in a mailbox that is not a classification mailbox, the
\* inbox included.
C26_LabelOnlyKeepsFolders ==
    [][(mode = "label-only" /\ userActs' = userActs) =>
          \A e \in Emails :
              mailboxIds'[e] \ getClassificationMailboxIds
                  = mailboxIds[e] \ getClassificationMailboxIds]_vars

\* The same for every mailbox but the classification mailboxes and the inbox.
C26_LabelOnlyKeepsFoldersButInbox ==
    [][(mode = "label-only" /\ userActs' = userActs) =>
          \A e \in Emails :
              mailboxIds'[e] \ (getClassificationMailboxIds \cup {inboxId})
                  = mailboxIds[e] \ (getClassificationMailboxIds \cup {inboxId})]_vars

\* The actionTaken processEmail records for classification c.
ActionFor(c) ==
    IF mode = "triage"
    THEN IF c = "low-priority" THEN "archived" ELSE "kept"
    ELSE "labeled"

NothingToSurface(id) ==
    \A e \in Emails :
        (processed[e] # NoRecord /\ processed[e].digestId = id) =>
            /\ processed[e].classification \notin {"low-priority", "fyi"}
            /\ processed[e].actionTaken # "archived"

SendFails(r) == dg[r].pc = "send" /\ dg'[r] = DgIdle

\* C29: when createDraft or sendEmail throws, no mail is submitted, the
\* digests table is as it was (the digest keeps status, id and cleanupToken
\* and no pending row is added), the ledger rows stay attached, and a digest
\* that is still pending is the one getPendingDigest returns to the next
\* generate, which reads its rows again.
C29_FailedSendKeepsDigest ==
    [][\A r \in DigestRuns :
          SendFails(r) =>
              /\ digests' = digests
              /\ delivered' = delivered
              /\ processed' = processed
              /\ digests[dg[r].id].status = "pending" =>
                    /\ SelectPending(digests') = dg[r].id
                    /\ digestEmails(processed', SelectPending(digests')) # {}]_vars

\* C29 for a send that fails while the table holds one pending row.
C29_FailedSendKeepsTheOnlyPendingDigest ==
    [][\A r \in DigestRuns :
          (SendFails(r) /\ Cardinality(PendingRows(digests)) <= 1) =>
              /\ digests' = digests
              /\ delivered' = delivered
              /\ processed' = processed
              /\ digests[dg[r].id].status = "pending" =>
                    /\ SelectPending(digests') = dg[r].id
                    /\ digestEmails(processed', SelectPending(digests')) # {}]_vars

\* The step writes a ledger row of message e tagged with digest d.
Attaches(e, d) == processed'[e] # processed[e] /\ processed'[e].digestId = d

\* Digest d has been read by a generate whose rendering is on its way to
\* sendEmail or markDigestSent.
Rendered(d) == \E r \in DigestRuns : dg[r].id = d /\ dg[r].pc \in {"send", "mark_sent"}

\* C30: a ledger row is only ever attached to a digest that is pending and
\* that no generate has read and rendered yet, so every row of a sent or
\* cleaned digest was read by the generate whose rendering was delivered.
C30_NoRowAttachedAfterRendering ==
    [][\A e \in Emails : \A d \in DigestIds :
          Attaches(e, d) => (digests[d].status = "pending" /\ ~Rendered(d))]_vars

\* C31: the label removal of cleanup never empties the folder membership of
\* a message that its fetch found in a folder other than the classification
\* mailboxes, whatever the user did to the message in between.
C31_UserEditLeavesNoOrphan ==
    [][\A q \in CleanupRequests :
          (cl[q].pc = "strip" /\ cl'[q] # cl[q]
              /\ mailboxIds[Head(cl[q].emails)] # {}
              /\ Head(cl[q].emails) \notin cl[q].orphans) =>
                 mailboxIds'[Head(cl[q].emails)] # {}]_vars

\* C31 for the messages the user has left alone since the fetch.
C31_UnchangedSinceFetchLeavesNoOrphan ==
    [][\A q \in CleanupRequests :
          (cl[q].pc = "strip" /\ cl'[q] # cl[q]
              /\ mailboxIds[Head(cl[q].emails)] # {}
              /\ Head(cl[q].emails) \notin cl[q].orphans
              /\ (inboxId \in mailboxIds[Head(cl[q].emails)]) = cl[q].isInInbox
              /\ (cl[q].isInInbox
                     \/ archiveId \in mailboxIds[Head(cl[q].emails)])) =>
                 mailboxIds'[Head(cl[q].emails)] # {}]_vars

\* C32: no step of cleanup changes the folder membership of a message whose
\* ledger row is not one the digest surfaces (important or needs-reply and
\* not archived).
C32_CleanupTouchesOnlySurfaced ==
    [][\A e \in Emails :
          (userActs' = userActs /\ processed[e] # NoRecord
              /\ ~DigestEligible(processed[e])) =>
                 mailboxIds'[e] = mailboxIds[e]]_vars

\* The membership cleanup changes is that of a message with a ledger row
\* of the digest the token names.
C32_CleanupTouchesOnlyRowsOfTheDigest ==
    [][\A e \in Emails :
          (userActs' = userActs /\ mailboxIds'[e] # mailboxIds[e]) =>
              \E q \in CleanupRequests :
                  /\ cl[q].emails # <<>> /\ Head(cl[q].emails) = e
                  /\ processed[e].digestId = cl[q].id
                  /\ digests[cl[q].id].cleanupToken = cl[q].token]_vars

\* C33: no step of cleanup takes a message out of a mailbox that is not a
\* classification mailbox, so for a message whose inbox membership is as
\* fetched those memberships are after cleanup what they were at the fetch,
\* the archive possibly added.
C33_CleanupKeepsOtherFolders ==
    [][\A q \in CleanupRequests :
          (userActs' = userActs /\ cl[q].emails # <<>>
              /\ cl[q].pc \in {"guard_add", "strip", "archive"}
              /\ (inboxId \in mailboxIds[Head(cl[q].emails)]) = cl[q].isInInbox) =>
                 (mailboxIds[Head(cl[q].emails)] \ getClassificationMailboxIds)
                     \subseteq mailboxIds'[Head(cl[q].emails)]]_vars

\* C33 for the revision of runCleanup that does not call archiveEmail.
C33_CleanupKeepsOtherFoldersOfGuardRevision ==
    [][\A q \in CleanupRequests :
          (rev = "guard" /\ userActs' = userActs /\ cl[q].emails # <<>>) =>
                 (mailboxIds[Head(cl[q].emails)] \ getClassificationMailboxIds)
                     \subseteq mailboxIds'[Head(cl[q].emails)]]_vars

\* C34: at most one call of poll() has not returned and at most one timer
\* is armed, whatever start() and stop() calls were made.
C34_OneCycleOneTimer ==
    /\ Cardinality(InFlight) <= 1
    /\ Cardinality(eng.timers) <= 1

\* C34 for an engine whose start() was never called with a cycle in flight.
C34_OneCycleOneTimerOfOneChain ==
    ~eng.overlapped =>
        /\ Cardinality(InFlight) <= 1
        /\ Cardinality(eng.timers) <= 1

\* C35: every ledger row triage writes, classified or passthrough, by the
\* engine or by the cron handler, carries the id of a row of the digests
\* table.
C35_RowCarriesDigest ==
    [][\A e \in Emails :
          (processed'[e] # processed[e]) =>
              processed'[e].digestId \in 1..Len(digests')]_vars

\* C35 for the rows the engine's poll cycle writes.
C35_EngineRowCarriesDigest ==
    [][\A e \in Emails :
          (processed'[e] # processed[e] /\ tr'["first"] # tr["first"]) =>
              processed'[e].digestId \in 1..Len(digests')]_vars

\* The step calls the Classifier on message e in call k of triage.
Classifies(k, e) ==
    /\ tr[k].queue # <<>> /\ Head(tr[k].queue) = e
    /\ ~tr[k].passthrough
    /\ \/ tr[k].pc = "next" /\ tr'[k].pc = "apply_add"
       \/ tr[k].pc = "cron_next" /\ tr'[k].queue = Tail(tr[k].queue)

\* C36: triage calls the Classifier on, and labels, only messages that are
\* not from the account itself and that the fetch of the cycle found in no
\* classification mailbox.
C36_SelfAndLabeledAreNotClassified ==
    [][\A k \in PollCalls : \A e \in Emails :
          Classifies(k, e) =>
              (e \notin fromSelf /\ e \notin tr[k].dropped /\ e \in tr[k].batch)]_vars

\* C36 for the polling engine.
C36_EngineSkipsSelfAndLabeled ==
    [][\A e \in Emails :
          Classifies("first", e) =>
              (e \notin fromSelf /\ e \notin tr["first"].dropped
                  /\ e \in tr["first"].batch)]_vars

\* C37: when a poll cycle calls the Classifier on a message, its correction
\* sweep has returned, and the classifier configuration of the cycle holds
\* every Correction row saved so far, those of the cycle's own sweep
\* included, as far as the RecentLimit newest rows reach.
C37_SweepThenConfigThenClassify ==
    [][\A e \in Emails :
          Classifies("first", e) =>
              /\ cp.pc = "idle"
              /\ \A i \in 1..Len(corrections) :
                    i > Len(corrections) - RecentLimit =>
                        \E j \in 1..Len(tr["first"].config) :
                            tr["first"].config[j] = i]_vars

\* No call has failed, so this is the first cycle: its sweep saved a
\* Correction row and the cycle has classified a message with it.
C37_Witness ==
    /\ failures = 0
    /\ tr["first"].pc = "apply_add"
    /\ corrections # <<>>
    /\ tr["first"].config = <<Len(corrections)>> \o
           [j \in 1..(Len(corrections) - 1) |-> Len(corrections) - j]

\* C38: when the handling of a pending correction fails in the sweep of a
\* poll cycle, in the scan or in its processing, the sweep is still on its
\* list of pending corrections and poll() is still in the sweep, with
\* processNewEmails to come.
C38_FailureStopsNeitherSweepNorCycle ==
    [][(failures' > failures /\ tr["first"].pc \in {"called", "sweep"}) =>
          /\ tr'["first"].pc = "sweep"
          /\ cp'.pc # "idle"
          /\ cp'.pending = IF cp.pc = "idle"
                           THEN scanForCorrections(mailboxIds, processed, mailboxes)
                           ELSE cp.pending]_vars

\* C38 for the failures of processCorrection.
C38_ProcessingFailureStopsNeitherSweepNorCycle ==
    [][(failures' > failures /\ tr["first"].pc = "sweep") =>
          /\ tr'["first"].pc = "sweep"
          /\ cp'.pc # "idle"
          /\ cp'.pending = cp.pending]_vars

\* C39: the messages a poll cycle fetches and sets out to classify are at
\* most batchSize, are unprocessed ids among the QueryLimit newest of the
\* inbox, and are newer than every such id the cycle leaves behind,
\* whatever the inbox holds.
C39_BatchIsFirstFiftyUnprocessed ==
    [][(tr["first"].pc = "idle" /\ tr'["first"].pc = "next") =>
          LET inbox == {e \in DOMAIN mailboxIds : inboxId \in mailboxIds[e]}
              queried == {e \in inbox :
                             Cardinality({x \in inbox : x > e}) < QueryLimit}
              unprocessed == {e \in queried : processed[e] = NoRecord}
              q == tr'["first"].queue
              taken == {q[i] : i \in 1..Len(q)}
          IN  /\ Len(q) <= batchSize
              /\ \A i \in 1..(Len(q) - 1) : q[i] > q[i + 1]
              /\ taken \subseteq unprocessed
              /\ \A e \in unprocessed \ taken : \A x \in taken : x > e
              /\ Len(q) < batchSize => taken = unprocessed]_vars

\* The inbox holds more than QueryLimit messages and more than batchSize
\* unprocessed ones among the queried, and the cycle has taken batchSize.
C39_Witness ==
    /\ tr["first"].pc = "next"
    /\ Len(tr["first"].queue) = batchSize
    /\ Len(mailboxIds) > QueryLimit
    /\ Cardinality({e \in DOMAIN processed : processed[e] = NoRecord}) > batchSize + 1
====
